---------------------------- MODULE Spec2Model ----------------------------
(***************************************************************************)
(* A model of ampyl's Groups class (src/ampyl/groups.py): the point-group  *)
(* tables, the little-group lookup, the induced-representation builders,   *)
(* the projector builders, and the shell reporters.                        *)
(*                                                                         *)
(* Groups holds no state that changes after construction, so the state of  *)
(* the model is the last call made on the object: the method called (op),  *)
(* its arguments (arg), how the call ended (outcome: "return" or the name  *)
(* of the exception raised) and the value it returned (result).  No method  *)
(* assigns to a field of the object, so a call made after other calls      *)
(* behaves as the same call made first; every behaviour of the model is    *)
(* the construction followed by one call.                                  *)
(***************************************************************************)
EXTENDS Integers, Sequences, FiniteSets, TLC

VARIABLES op, arg, outcome, result

vars == <<op, arg, outcome, result>>

(***************************************************************************)
(* Static tables built by Groups.__init__                                  *)
(***************************************************************************)
\* The 48 elements of OhP, in the order of the source table.
OhP ==
  <<<<<<1, 0, 0>>, <<0, 1, 0>>, <<0, 0, 1>>>>,
    <<<<0, 1, 0>>, <<1, 0, 0>>, <<0, 0, -1>>>>,
    <<<<0, -1, 0>>, <<-1, 0, 0>>, <<0, 0, -1>>>>,
    <<<<-1, 0, 0>>, <<0, 0, 1>>, <<0, 1, 0>>>>,
    <<<<-1, 0, 0>>, <<0, 0, -1>>, <<0, -1, 0>>>>,
    <<<<0, 0, 1>>, <<0, -1, 0>>, <<1, 0, 0>>>>,
    <<<<0, 0, -1>>, <<0, -1, 0>>, <<-1, 0, 0>>>>,
    <<<<0, -1, 0>>, <<0, 0, -1>>, <<1, 0, 0>>>>,
    <<<<0, 0, 1>>, <<-1, 0, 0>>, <<0, -1, 0>>>>,
    <<<<0, 0, -1>>, <<-1, 0, 0>>, <<0, 1, 0>>>>,
    <<<<0, -1, 0>>, <<0, 0, 1>>, <<-1, 0, 0>>>>,
    <<<<0, 0, 1>>, <<1, 0, 0>>, <<0, 1, 0>>>>,
    <<<<0, 1, 0>>, <<0, 0, 1>>, <<1, 0, 0>>>>,
    <<<<0, 1, 0>>, <<0, 0, -1>>, <<-1, 0, 0>>>>,
    <<<<0, 0, -1>>, <<1, 0, 0>>, <<0, -1, 0>>>>,
    <<<<0, -1, 0>>, <<1, 0, 0>>, <<0, 0, 1>>>>,
    <<<<0, 1, 0>>, <<-1, 0, 0>>, <<0, 0, 1>>>>,
    <<<<0, 0, 1>>, <<0, 1, 0>>, <<-1, 0, 0>>>>,
    <<<<0, 0, -1>>, <<0, 1, 0>>, <<1, 0, 0>>>>,
    <<<<1, 0, 0>>, <<0, 0, 1>>, <<0, -1, 0>>>>,
    <<<<1, 0, 0>>, <<0, 0, -1>>, <<0, 1, 0>>>>,
    <<<<-1, 0, 0>>, <<0, -1, 0>>, <<0, 0, 1>>>>,
    <<<<-1, 0, 0>>, <<0, 1, 0>>, <<0, 0, -1>>>>,
    <<<<1, 0, 0>>, <<0, -1, 0>>, <<0, 0, -1>>>>,
    <<<<-1, 0, 0>>, <<0, -1, 0>>, <<0, 0, -1>>>>,
    <<<<0, -1, 0>>, <<-1, 0, 0>>, <<0, 0, 1>>>>,
    <<<<0, 1, 0>>, <<1, 0, 0>>, <<0, 0, 1>>>>,
    <<<<1, 0, 0>>, <<0, 0, -1>>, <<0, -1, 0>>>>,
    <<<<1, 0, 0>>, <<0, 0, 1>>, <<0, 1, 0>>>>,
    <<<<0, 0, -1>>, <<0, 1, 0>>, <<-1, 0, 0>>>>,
    <<<<0, 0, 1>>, <<0, 1, 0>>, <<1, 0, 0>>>>,
    <<<<0, 1, 0>>, <<0, 0, 1>>, <<-1, 0, 0>>>>,
    <<<<0, 0, -1>>, <<1, 0, 0>>, <<0, 1, 0>>>>,
    <<<<0, 0, 1>>, <<1, 0, 0>>, <<0, -1, 0>>>>,
    <<<<0, 1, 0>>, <<0, 0, -1>>, <<1, 0, 0>>>>,
    <<<<0, 0, -1>>, <<-1, 0, 0>>, <<0, -1, 0>>>>,
    <<<<0, -1, 0>>, <<0, 0, -1>>, <<-1, 0, 0>>>>,
    <<<<0, -1, 0>>, <<0, 0, 1>>, <<1, 0, 0>>>>,
    <<<<0, 0, 1>>, <<-1, 0, 0>>, <<0, 1, 0>>>>,
    <<<<0, 1, 0>>, <<-1, 0, 0>>, <<0, 0, -1>>>>,
    <<<<0, -1, 0>>, <<1, 0, 0>>, <<0, 0, -1>>>>,
    <<<<0, 0, -1>>, <<0, -1, 0>>, <<1, 0, 0>>>>,
    <<<<0, 0, 1>>, <<0, -1, 0>>, <<-1, 0, 0>>>>,
    <<<<-1, 0, 0>>, <<0, 0, -1>>, <<0, 1, 0>>>>,
    <<<<-1, 0, 0>>, <<0, 0, 1>>, <<0, -1, 0>>>>,
    <<<<1, 0, 0>>, <<0, 1, 0>>, <<0, 0, -1>>>>,
    <<<<1, 0, 0>>, <<0, -1, 0>>, <<0, 0, 1>>>>,
    <<<<-1, 0, 0>>, <<0, 1, 0>>, <<0, 0, 1>>>>>>

\* The 8 elements of Dic4, in the order of the source table.
Dic4 ==
  <<<<<<1, 0, 0>>, <<0, 1, 0>>, <<0, 0, 1>>>>,
    <<<<0, -1, 0>>, <<1, 0, 0>>, <<0, 0, 1>>>>,
    <<<<0, 1, 0>>, <<-1, 0, 0>>, <<0, 0, 1>>>>,
    <<<<-1, 0, 0>>, <<0, -1, 0>>, <<0, 0, 1>>>>,
    <<<<0, -1, 0>>, <<-1, 0, 0>>, <<0, 0, 1>>>>,
    <<<<0, 1, 0>>, <<1, 0, 0>>, <<0, 0, 1>>>>,
    <<<<1, 0, 0>>, <<0, -1, 0>>, <<0, 0, 1>>>>,
    <<<<-1, 0, 0>>, <<0, 1, 0>>, <<0, 0, 1>>>>>>

\* Dic2 with a sign slip in the third row of its second element
Dic2_SignSlip ==
  <<<<<<1, 0, 0>>, <<0, 1, 0>>, <<0, 0, 1>>>>,
    <<<<-1, 0, 0>>, <<0, 0, 1>>, <<0, -1, 0>>>>,
    <<<<1, 0, 0>>, <<0, 0, 1>>, <<0, 1, 0>>>>,
    <<<<-1, 0, 0>>, <<0, 1, 0>>, <<0, 0, 1>>>>>>

\* The 4 elements of Dic2, in the order of the source table.
Dic2 ==
  <<<<<<1, 0, 0>>, <<0, 1, 0>>, <<0, 0, 1>>>>,
    <<<<-1, 0, 0>>, <<0, 0, 1>>, <<0, 1, 0>>>>,
    <<<<1, 0, 0>>, <<0, 0, 1>>, <<0, 1, 0>>>>,
    <<<<-1, 0, 0>>, <<0, 1, 0>>, <<0, 0, 1>>>>>>

\* chardict[key] for the integer-spin irreps: a sequence of rows, one per irrep row,
\* each row holding one character per group element.
chardict(key) ==
  CASE key = "OhP_A1PLUS" ->
       <<<<1, 1, 1, 1, 1, 1, 1, 1, 1, 1, 1, 1, 1, 1, 1, 1, 1, 1, 1, 1, 1, 1, 1, 1,
       1, 1, 1, 1, 1, 1, 1, 1, 1, 1, 1, 1, 1, 1, 1, 1, 1, 1, 1, 1, 1, 1, 1,
       1>>>>
    [] key = "OhP_A2PLUS" ->
       <<<<1, -1, -1, -1, -1, -1, -1, 1, 1, 1, 1, 1, 1, 1, 1, -1, -1, -1, -1, -1,
       -1, 1, 1, 1, 1, -1, -1, -1, -1, -1, -1, 1, 1, 1, 1, 1, 1, 1, 1, -1,
       -1, -1, -1, -1, -1, 1, 1, 1>>>>
    [] key = "OhP_EPLUS" ->
       <<<<2, 0, 0, 0, 0, 0, 0, -1, -1, -1, -1, -1, -1, -1, -1, 0, 0, 0, 0, 0, 0,
       2, 2, 2, 2, 0, 0, 0, 0, 0, 0, -1, -1, -1, -1, -1, -1, -1, -1, 0, 0,
       0, 0, 0, 0, 2, 2, 2>>, <<2, 0, 0, 0, 0, 0, 0, -1, -1, -1, -1, -1, -1,
       -1, -1, 0, 0, 0, 0, 0, 0, 2, 2, 2, 2, 0, 0, 0, 0, 0, 0, -1, -1, -1,
       -1, -1, -1, -1, -1, 0, 0, 0, 0, 0, 0, 2, 2, 2>>>>
    [] key = "OhP_T1PLUS" ->
       <<<<3, -1, -1, -1, -1, -1, -1, 0, 0, 0, 0, 0, 0, 0, 0, 1, 1, 1, 1, 1, 1, -1,
       -1, -1, 3, -1, -1, -1, -1, -1, -1, 0, 0, 0, 0, 0, 0, 0, 0, 1, 1, 1,
       1, 1, 1, -1, -1, -1>>, <<3, -1, -1, -1, -1, -1, -1, 0, 0, 0, 0, 0, 0,
       0, 0, 1, 1, 1, 1, 1, 1, -1, -1, -1, 3, -1, -1, -1, -1, -1, -1, 0, 0,
       0, 0, 0, 0, 0, 0, 1, 1, 1, 1, 1, 1, -1, -1, -1>>, <<3, -1, -1, -1,
       -1, -1, -1, 0, 0, 0, 0, 0, 0, 0, 0, 1, 1, 1, 1, 1, 1, -1, -1, -1, 3,
       -1, -1, -1, -1, -1, -1, 0, 0, 0, 0, 0, 0, 0, 0, 1, 1, 1, 1, 1, 1, -1,
       -1, -1>>>>
    [] key = "OhP_T2PLUS" ->
       <<<<3, 1, 1, 1, 1, 1, 1, 0, 0, 0, 0, 0, 0, 0, 0, -1, -1, -1, -1, -1, -1, -1,
       -1, -1, 3, 1, 1, 1, 1, 1, 1, 0, 0, 0, 0, 0, 0, 0, 0, -1, -1, -1, -1,
       -1, -1, -1, -1, -1>>, <<3, 1, 1, 1, 1, 1, 1, 0, 0, 0, 0, 0, 0, 0, 0,
       -1, -1, -1, -1, -1, -1, -1, -1, -1, 3, 1, 1, 1, 1, 1, 1, 0, 0, 0, 0,
       0, 0, 0, 0, -1, -1, -1, -1, -1, -1, -1, -1, -1>>, <<3, 1, 1, 1, 1, 1,
       1, 0, 0, 0, 0, 0, 0, 0, 0, -1, -1, -1, -1, -1, -1, -1, -1, -1, 3, 1,
       1, 1, 1, 1, 1, 0, 0, 0, 0, 0, 0, 0, 0, -1, -1, -1, -1, -1, -1, -1,
       -1, -1>>>>
    [] key = "OhP_A1MINUS" ->
       <<<<1, 1, 1, 1, 1, 1, 1, 1, 1, 1, 1, 1, 1, 1, 1, 1, 1, 1, 1, 1, 1, 1, 1, 1,
       -1, -1, -1, -1, -1, -1, -1, -1, -1, -1, -1, -1, -1, -1, -1, -1, -1,
       -1, -1, -1, -1, -1, -1, -1>>>>
    [] key = "OhP_A2MINUS" ->
       <<<<1, -1, -1, -1, -1, -1, -1, 1, 1, 1, 1, 1, 1, 1, 1, -1, -1, -1, -1, -1,
       -1, 1, 1, 1, -1, 1, 1, 1, 1, 1, 1, -1, -1, -1, -1, -1, -1, -1, -1, 1,
       1, 1, 1, 1, 1, -1, -1, -1>>>>
    [] key = "OhP_EMINUS" ->
       <<<<2, 0, 0, 0, 0, 0, 0, -1, -1, -1, -1, -1, -1, -1, -1, 0, 0, 0, 0, 0, 0,
       2, 2, 2, -2, 0, 0, 0, 0, 0, 0, 1, 1, 1, 1, 1, 1, 1, 1, 0, 0, 0, 0, 0,
       0, -2, -2, -2>>, <<2, 0, 0, 0, 0, 0, 0, -1, -1, -1, -1, -1, -1, -1,
       -1, 0, 0, 0, 0, 0, 0, 2, 2, 2, -2, 0, 0, 0, 0, 0, 0, 1, 1, 1, 1, 1,
       1, 1, 1, 0, 0, 0, 0, 0, 0, -2, -2, -2>>>>
    [] key = "OhP_T1MINUS" ->
       <<<<3, -1, -1, -1, -1, -1, -1, 0, 0, 0, 0, 0, 0, 0, 0, 1, 1, 1, 1, 1, 1, -1,
       -1, -1, -3, 1, 1, 1, 1, 1, 1, 0, 0, 0, 0, 0, 0, 0, 0, -1, -1, -1, -1,
       -1, -1, 1, 1, 1>>, <<3, -1, -1, -1, -1, -1, -1, 0, 0, 0, 0, 0, 0, 0,
       0, 1, 1, 1, 1, 1, 1, -1, -1, -1, -3, 1, 1, 1, 1, 1, 1, 0, 0, 0, 0, 0,
       0, 0, 0, -1, -1, -1, -1, -1, -1, 1, 1, 1>>, <<3, -1, -1, -1, -1, -1,
       -1, 0, 0, 0, 0, 0, 0, 0, 0, 1, 1, 1, 1, 1, 1, -1, -1, -1, -3, 1, 1,
       1, 1, 1, 1, 0, 0, 0, 0, 0, 0, 0, 0, -1, -1, -1, -1, -1, -1, 1, 1,
       1>>>>
    [] key = "OhP_T2MINUS" ->
       <<<<3, 1, 1, 1, 1, 1, 1, 0, 0, 0, 0, 0, 0, 0, 0, -1, -1, -1, -1, -1, -1, -1,
       -1, -1, -3, -1, -1, -1, -1, -1, -1, 0, 0, 0, 0, 0, 0, 0, 0, 1, 1, 1,
       1, 1, 1, 1, 1, 1>>, <<3, 1, 1, 1, 1, 1, 1, 0, 0, 0, 0, 0, 0, 0, 0,
       -1, -1, -1, -1, -1, -1, -1, -1, -1, -3, -1, -1, -1, -1, -1, -1, 0, 0,
       0, 0, 0, 0, 0, 0, 1, 1, 1, 1, 1, 1, 1, 1, 1>>, <<3, 1, 1, 1, 1, 1, 1,
       0, 0, 0, 0, 0, 0, 0, 0, -1, -1, -1, -1, -1, -1, -1, -1, -1, -3, -1,
       -1, -1, -1, -1, -1, 0, 0, 0, 0, 0, 0, 0, 0, 1, 1, 1, 1, 1, 1, 1, 1,
       1>>>>
    [] key = "Dic4_A1" ->
       <<<<1, 1, 1, 1, 1, 1, 1, 1>>>>
    [] key = "Dic4_A2" ->
       <<<<1, 1, 1, 1, -1, -1, -1, -1>>>>
    [] key = "Dic4_B1" ->
       <<<<1, -1, -1, 1, -1, -1, 1, 1>>>>
    [] key = "Dic4_B2" ->
       <<<<1, -1, -1, 1, 1, 1, -1, -1>>>>
    [] key = "Dic4_E2" ->
       <<<<2, 0, 0, -2, 0, 0, 0, 0>>, <<2, 0, 0, -2, 0, 0, 0, 0>>>>
    [] key = "Dic2_A1" ->
       <<<<1, 1, 1, 1>>>>
    [] key = "Dic2_A2" ->
       <<<<1, 1, -1, -1>>>>
    [] key = "Dic2_B1" ->
       <<<<1, -1, -1, 1>>>>
    [] key = "Dic2_B2" ->
       <<<<1, -1, 1, -1>>>>

\* The keys of chardict with one character per group element (the spinor keys G1, G2, H
\* hold one character per double-cover element and are not used on the integer-spin path).
CharKeys ==
  {"OhP_A1PLUS", "OhP_A2PLUS", "OhP_EPLUS", "OhP_T1PLUS", "OhP_T2PLUS",
   "OhP_A1MINUS", "OhP_A2MINUS", "OhP_EMINUS", "OhP_T1MINUS", "OhP_T2MINUS",
   "Dic4_A1", "Dic4_A2", "Dic4_B1", "Dic4_B2", "Dic4_E2", "Dic2_A1",
   "Dic2_A2", "Dic2_B1", "Dic2_B2"}

\* bTdict[key]: a sequence of rows; an entry <<re, im, rt>> stands for the number
\* (re + im*i)*sqrt(rt), rt = 2 for a multiple of RTWO and rt = 3 for a multiple of RTHREE.
bTdict(key) ==
  CASE key = "OhP_A1PLUS" ->
       <<<<<<1, 0, 1>>, <<1, 0, 1>>, <<1, 0, 1>>, <<1, 0, 1>>, <<1, 0, 1>>, <<1, 0,
       1>>, <<1, 0, 1>>, <<1, 0, 1>>, <<1, 0, 1>>, <<1, 0, 1>>, <<1, 0, 1>>,
       <<1, 0, 1>>, <<1, 0, 1>>, <<1, 0, 1>>, <<1, 0, 1>>, <<1, 0, 1>>, <<1,
       0, 1>>, <<1, 0, 1>>, <<1, 0, 1>>, <<1, 0, 1>>, <<1, 0, 1>>, <<1, 0,
       1>>, <<1, 0, 1>>, <<1, 0, 1>>, <<1, 0, 1>>, <<1, 0, 1>>, <<1, 0, 1>>,
       <<1, 0, 1>>, <<1, 0, 1>>, <<1, 0, 1>>, <<1, 0, 1>>, <<1, 0, 1>>, <<1,
       0, 1>>, <<1, 0, 1>>, <<1, 0, 1>>, <<1, 0, 1>>, <<1, 0, 1>>, <<1, 0,
       1>>, <<1, 0, 1>>, <<1, 0, 1>>, <<1, 0, 1>>, <<1, 0, 1>>, <<1, 0, 1>>,
       <<1, 0, 1>>, <<1, 0, 1>>, <<1, 0, 1>>, <<1, 0, 1>>, <<1, 0, 1>>>>>>
    [] key = "OhP_A2PLUS" ->
       <<<<<<1, 0, 1>>, <<-1, 0, 1>>, <<-1, 0, 1>>, <<-1, 0, 1>>, <<-1, 0, 1>>,
       <<-1, 0, 1>>, <<-1, 0, 1>>, <<1, 0, 1>>, <<1, 0, 1>>, <<1, 0, 1>>,
       <<1, 0, 1>>, <<1, 0, 1>>, <<1, 0, 1>>, <<1, 0, 1>>, <<1, 0, 1>>,
       <<-1, 0, 1>>, <<-1, 0, 1>>, <<-1, 0, 1>>, <<-1, 0, 1>>, <<-1, 0, 1>>,
       <<-1, 0, 1>>, <<1, 0, 1>>, <<1, 0, 1>>, <<1, 0, 1>>, <<1, 0, 1>>,
       <<-1, 0, 1>>, <<-1, 0, 1>>, <<-1, 0, 1>>, <<-1, 0, 1>>, <<-1, 0, 1>>,
       <<-1, 0, 1>>, <<1, 0, 1>>, <<1, 0, 1>>, <<1, 0, 1>>, <<1, 0, 1>>,
       <<1, 0, 1>>, <<1, 0, 1>>, <<1, 0, 1>>, <<1, 0, 1>>, <<-1, 0, 1>>,
       <<-1, 0, 1>>, <<-1, 0, 1>>, <<-1, 0, 1>>, <<-1, 0, 1>>, <<-1, 0, 1>>,
       <<1, 0, 1>>, <<1, 0, 1>>, <<1, 0, 1>>>>>>
    [] key = "OhP_EPLUS" ->
       <<<<<<1, 0, 1>>, <<1, 0, 1>>, <<1, 0, 1>>, <<1, 0, 1>>, <<1, 0, 1>>, <<-2,
       0, 1>>, <<-2, 0, 1>>, <<1, 0, 1>>, <<-2, 0, 1>>, <<-2, 0, 1>>, <<1,
       0, 1>>, <<-2, 0, 1>>, <<1, 0, 1>>, <<1, 0, 1>>, <<-2, 0, 1>>, <<1, 0,
       1>>, <<1, 0, 1>>, <<-2, 0, 1>>, <<-2, 0, 1>>, <<1, 0, 1>>, <<1, 0,
       1>>, <<1, 0, 1>>, <<1, 0, 1>>, <<1, 0, 1>>, <<1, 0, 1>>, <<1, 0, 1>>,
       <<1, 0, 1>>, <<1, 0, 1>>, <<1, 0, 1>>, <<-2, 0, 1>>, <<-2, 0, 1>>,
       <<1, 0, 1>>, <<-2, 0, 1>>, <<-2, 0, 1>>, <<1, 0, 1>>, <<-2, 0, 1>>,
       <<1, 0, 1>>, <<1, 0, 1>>, <<-2, 0, 1>>, <<1, 0, 1>>, <<1, 0, 1>>,
       <<-2, 0, 1>>, <<-2, 0, 1>>, <<1, 0, 1>>, <<1, 0, 1>>, <<1, 0, 1>>,
       <<1, 0, 1>>, <<1, 0, 1>>>>, <<<<-1, 0, 3>>, <<1, 0, 3>>, <<1, 0, 3>>,
       <<-1, 0, 3>>, <<-1, 0, 3>>, <<0, 0, 1>>, <<0, 0, 1>>, <<1, 0, 3>>,
       <<0, 0, 1>>, <<0, 0, 1>>, <<1, 0, 3>>, <<0, 0, 1>>, <<1, 0, 3>>, <<1,
       0, 3>>, <<0, 0, 1>>, <<1, 0, 3>>, <<1, 0, 3>>, <<0, 0, 1>>, <<0, 0,
       1>>, <<-1, 0, 3>>, <<-1, 0, 3>>, <<-1, 0, 3>>, <<-1, 0, 3>>, <<-1, 0,
       3>>, <<-1, 0, 3>>, <<1, 0, 3>>, <<1, 0, 3>>, <<-1, 0, 3>>, <<-1, 0,
       3>>, <<0, 0, 1>>, <<0, 0, 1>>, <<1, 0, 3>>, <<0, 0, 1>>, <<0, 0, 1>>,
       <<1, 0, 3>>, <<0, 0, 1>>, <<1, 0, 3>>, <<1, 0, 3>>, <<0, 0, 1>>, <<1,
       0, 3>>, <<1, 0, 3>>, <<0, 0, 1>>, <<0, 0, 1>>, <<-1, 0, 3>>, <<-1, 0,
       3>>, <<-1, 0, 3>>, <<-1, 0, 3>>, <<-1, 0, 3>>>>>>
    [] key = "OhP_T1PLUS" ->
       <<<<<<-1, 1, 1>>, <<-1, 1, 1>>, <<1, -1, 1>>, <<1, 1, 1>>, <<1, -1, 1>>,
       <<-1, -1, 1>>, <<1, -1, 1>>, <<-1, -1, 1>>, <<1, -1, 1>>, <<1, 1,
       1>>, <<1, -1, 1>>, <<-1, 1, 1>>, <<-1, 1, 1>>, <<1, 1, 1>>, <<-1, -1,
       1>>, <<-1, -1, 1>>, <<1, 1, 1>>, <<1, 1, 1>>, <<-1, 1, 1>>, <<-1, -1,
       1>>, <<-1, 1, 1>>, <<1, -1, 1>>, <<1, 1, 1>>, <<-1, -1, 1>>, <<-1, 1,
       1>>, <<-1, 1, 1>>, <<1, -1, 1>>, <<1, 1, 1>>, <<1, -1, 1>>, <<-1, -1,
       1>>, <<1, -1, 1>>, <<-1, -1, 1>>, <<1, -1, 1>>, <<1, 1, 1>>, <<1, -1,
       1>>, <<-1, 1, 1>>, <<-1, 1, 1>>, <<1, 1, 1>>, <<-1, -1, 1>>, <<-1,
       -1, 1>>, <<1, 1, 1>>, <<1, 1, 1>>, <<-1, 1, 1>>, <<-1, -1, 1>>, <<-1,
       1, 1>>, <<1, -1, 1>>, <<1, 1, 1>>, <<-1, -1, 1>>>>, <<<<1, 0, 2>>,
       <<-1, 0, 2>>, <<-1, 0, 2>>, <<1, 0, 2>>, <<-1, 0, 2>>, <<1, 0, 2>>,
       <<-1, 0, 2>>, <<-1, 0, 2>>, <<1, 0, 2>>, <<-1, 0, 2>>, <<1, 0, 2>>,
       <<1, 0, 2>>, <<1, 0, 2>>, <<-1, 0, 2>>, <<-1, 0, 2>>, <<1, 0, 2>>,
       <<1, 0, 2>>, <<1, 0, 2>>, <<-1, 0, 2>>, <<1, 0, 2>>, <<-1, 0, 2>>,
       <<1, 0, 2>>, <<-1, 0, 2>>, <<-1, 0, 2>>, <<1, 0, 2>>, <<-1, 0, 2>>,
       <<-1, 0, 2>>, <<1, 0, 2>>, <<-1, 0, 2>>, <<1, 0, 2>>, <<-1, 0, 2>>,
       <<-1, 0, 2>>, <<1, 0, 2>>, <<-1, 0, 2>>, <<1, 0, 2>>, <<1, 0, 2>>,
       <<1, 0, 2>>, <<-1, 0, 2>>, <<-1, 0, 2>>, <<1, 0, 2>>, <<1, 0, 2>>,
       <<1, 0, 2>>, <<-1, 0, 2>>, <<1, 0, 2>>, <<-1, 0, 2>>, <<1, 0, 2>>,
       <<-1, 0, 2>>, <<-1, 0, 2>>>>, <<<<1, 1, 1>>, <<1, 1, 1>>, <<-1, -1,
       1>>, <<-1, 1, 1>>, <<-1, -1, 1>>, <<1, -1, 1>>, <<-1, -1, 1>>, <<1,
       -1, 1>>, <<-1, -1, 1>>, <<-1, 1, 1>>, <<-1, -1, 1>>, <<1, 1, 1>>,
       <<1, 1, 1>>, <<-1, 1, 1>>, <<1, -1, 1>>, <<1, -1, 1>>, <<-1, 1, 1>>,
       <<-1, 1, 1>>, <<1, 1, 1>>, <<1, -1, 1>>, <<1, 1, 1>>, <<-1, -1, 1>>,
       <<-1, 1, 1>>, <<1, -1, 1>>, <<1, 1, 1>>, <<1, 1, 1>>, <<-1, -1, 1>>,
       <<-1, 1, 1>>, <<-1, -1, 1>>, <<1, -1, 1>>, <<-1, -1, 1>>, <<1, -1,
       1>>, <<-1, -1, 1>>, <<-1, 1, 1>>, <<-1, -1, 1>>, <<1, 1, 1>>, <<1, 1,
       1>>, <<-1, 1, 1>>, <<1, -1, 1>>, <<1, -1, 1>>, <<-1, 1, 1>>, <<-1, 1,
       1>>, <<1, 1, 1>>, <<1, -1, 1>>, <<1, 1, 1>>, <<-1, -1, 1>>, <<-1, 1,
       1>>, <<1, -1, 1>>>>>>
    [] key = "OhP_T2PLUS" ->
       <<<<<<1, 1, 1>>, <<-1, -1, 1>>, <<1, 1, 1>>, <<1, 1, 1>>, <<1, -1, 1>>, <<1,
       1, 1>>, <<-1, 1, 1>>, <<-1, -1, 1>>, <<-1, 1, 1>>, <<-1, -1, 1>>,
       <<1, -1, 1>>, <<1, -1, 1>>, <<-1, 1, 1>>, <<1, 1, 1>>, <<1, 1, 1>>,
       <<-1, 1, 1>>, <<1, -1, 1>>, <<-1, -1, 1>>, <<1, -1, 1>>, <<-1, -1,
       1>>, <<-1, 1, 1>>, <<-1, -1, 1>>, <<-1, 1, 1>>, <<1, -1, 1>>, <<1, 1,
       1>>, <<-1, -1, 1>>, <<1, 1, 1>>, <<1, 1, 1>>, <<1, -1, 1>>, <<1, 1,
       1>>, <<-1, 1, 1>>, <<-1, -1, 1>>, <<-1, 1, 1>>, <<-1, -1, 1>>, <<1,
       -1, 1>>, <<1, -1, 1>>, <<-1, 1, 1>>, <<1, 1, 1>>, <<1, 1, 1>>, <<-1,
       1, 1>>, <<1, -1, 1>>, <<-1, -1, 1>>, <<1, -1, 1>>, <<-1, -1, 1>>,
       <<-1, 1, 1>>, <<-1, -1, 1>>, <<-1, 1, 1>>, <<1, -1, 1>>>>, <<<<1, 0,
       2>>, <<1, 0, 2>>, <<1, 0, 2>>, <<1, 0, 2>>, <<-1, 0, 2>>, <<1, 0,
       2>>, <<-1, 0, 2>>, <<1, 0, 2>>, <<-1, 0, 2>>, <<1, 0, 2>>, <<-1, 0,
       2>>, <<-1, 0, 2>>, <<-1, 0, 2>>, <<1, 0, 2>>, <<1, 0, 2>>, <<-1, 0,
       2>>, <<-1, 0, 2>>, <<1, 0, 2>>, <<-1, 0, 2>>, <<1, 0, 2>>, <<-1, 0,
       2>>, <<1, 0, 2>>, <<-1, 0, 2>>, <<-1, 0, 2>>, <<1, 0, 2>>, <<1, 0,
       2>>, <<1, 0, 2>>, <<1, 0, 2>>, <<-1, 0, 2>>, <<1, 0, 2>>, <<-1, 0,
       2>>, <<1, 0, 2>>, <<-1, 0, 2>>, <<1, 0, 2>>, <<-1, 0, 2>>, <<-1, 0,
       2>>, <<-1, 0, 2>>, <<1, 0, 2>>, <<1, 0, 2>>, <<-1, 0, 2>>, <<-1, 0,
       2>>, <<1, 0, 2>>, <<-1, 0, 2>>, <<1, 0, 2>>, <<-1, 0, 2>>, <<1, 0,
       2>>, <<-1, 0, 2>>, <<-1, 0, 2>>>>, <<<<1, -1, 1>>, <<-1, 1, 1>>, <<1,
       -1, 1>>, <<1, -1, 1>>, <<1, 1, 1>>, <<1, -1, 1>>, <<-1, -1, 1>>,
       <<-1, 1, 1>>, <<-1, -1, 1>>, <<-1, 1, 1>>, <<1, 1, 1>>, <<1, 1, 1>>,
       <<-1, -1, 1>>, <<1, -1, 1>>, <<1, -1, 1>>, <<-1, -1, 1>>, <<1, 1,
       1>>, <<-1, 1, 1>>, <<1, 1, 1>>, <<-1, 1, 1>>, <<-1, -1, 1>>, <<-1, 1,
       1>>, <<-1, -1, 1>>, <<1, 1, 1>>, <<1, -1, 1>>, <<-1, 1, 1>>, <<1, -1,
       1>>, <<1, -1, 1>>, <<1, 1, 1>>, <<1, -1, 1>>, <<-1, -1, 1>>, <<-1, 1,
       1>>, <<-1, -1, 1>>, <<-1, 1, 1>>, <<1, 1, 1>>, <<1, 1, 1>>, <<-1, -1,
       1>>, <<1, -1, 1>>, <<1, -1, 1>>, <<-1, -1, 1>>, <<1, 1, 1>>, <<-1, 1,
       1>>, <<1, 1, 1>>, <<-1, 1, 1>>, <<-1, -1, 1>>, <<-1, 1, 1>>, <<-1,
       -1, 1>>, <<1, 1, 1>>>>>>
    [] key = "OhP_A1MINUS" ->
       <<<<<<1, 0, 1>>, <<1, 0, 1>>, <<1, 0, 1>>, <<1, 0, 1>>, <<1, 0, 1>>, <<1, 0,
       1>>, <<1, 0, 1>>, <<1, 0, 1>>, <<1, 0, 1>>, <<1, 0, 1>>, <<1, 0, 1>>,
       <<1, 0, 1>>, <<1, 0, 1>>, <<1, 0, 1>>, <<1, 0, 1>>, <<1, 0, 1>>, <<1,
       0, 1>>, <<1, 0, 1>>, <<1, 0, 1>>, <<1, 0, 1>>, <<1, 0, 1>>, <<1, 0,
       1>>, <<1, 0, 1>>, <<1, 0, 1>>, <<-1, 0, 1>>, <<-1, 0, 1>>, <<-1, 0,
       1>>, <<-1, 0, 1>>, <<-1, 0, 1>>, <<-1, 0, 1>>, <<-1, 0, 1>>, <<-1, 0,
       1>>, <<-1, 0, 1>>, <<-1, 0, 1>>, <<-1, 0, 1>>, <<-1, 0, 1>>, <<-1, 0,
       1>>, <<-1, 0, 1>>, <<-1, 0, 1>>, <<-1, 0, 1>>, <<-1, 0, 1>>, <<-1, 0,
       1>>, <<-1, 0, 1>>, <<-1, 0, 1>>, <<-1, 0, 1>>, <<-1, 0, 1>>, <<-1, 0,
       1>>, <<-1, 0, 1>>>>>>
    [] key = "OhP_A2MINUS" ->
       <<<<<<1, 0, 1>>, <<-1, 0, 1>>, <<-1, 0, 1>>, <<-1, 0, 1>>, <<-1, 0, 1>>,
       <<-1, 0, 1>>, <<-1, 0, 1>>, <<1, 0, 1>>, <<1, 0, 1>>, <<1, 0, 1>>,
       <<1, 0, 1>>, <<1, 0, 1>>, <<1, 0, 1>>, <<1, 0, 1>>, <<1, 0, 1>>,
       <<-1, 0, 1>>, <<-1, 0, 1>>, <<-1, 0, 1>>, <<-1, 0, 1>>, <<-1, 0, 1>>,
       <<-1, 0, 1>>, <<1, 0, 1>>, <<1, 0, 1>>, <<1, 0, 1>>, <<-1, 0, 1>>,
       <<1, 0, 1>>, <<1, 0, 1>>, <<1, 0, 1>>, <<1, 0, 1>>, <<1, 0, 1>>, <<1,
       0, 1>>, <<-1, 0, 1>>, <<-1, 0, 1>>, <<-1, 0, 1>>, <<-1, 0, 1>>, <<-1,
       0, 1>>, <<-1, 0, 1>>, <<-1, 0, 1>>, <<-1, 0, 1>>, <<1, 0, 1>>, <<1,
       0, 1>>, <<1, 0, 1>>, <<1, 0, 1>>, <<1, 0, 1>>, <<1, 0, 1>>, <<-1, 0,
       1>>, <<-1, 0, 1>>, <<-1, 0, 1>>>>>>
    [] key = "OhP_EMINUS" ->
       <<<<<<1, 0, 1>>, <<1, 0, 1>>, <<1, 0, 1>>, <<1, 0, 1>>, <<1, 0, 1>>, <<-2,
       0, 1>>, <<-2, 0, 1>>, <<1, 0, 1>>, <<-2, 0, 1>>, <<-2, 0, 1>>, <<1,
       0, 1>>, <<-2, 0, 1>>, <<1, 0, 1>>, <<1, 0, 1>>, <<-2, 0, 1>>, <<1, 0,
       1>>, <<1, 0, 1>>, <<-2, 0, 1>>, <<-2, 0, 1>>, <<1, 0, 1>>, <<1, 0,
       1>>, <<1, 0, 1>>, <<1, 0, 1>>, <<1, 0, 1>>, <<-1, 0, 1>>, <<-1, 0,
       1>>, <<-1, 0, 1>>, <<-1, 0, 1>>, <<-1, 0, 1>>, <<2, 0, 1>>, <<2, 0,
       1>>, <<-1, 0, 1>>, <<2, 0, 1>>, <<2, 0, 1>>, <<-1, 0, 1>>, <<2, 0,
       1>>, <<-1, 0, 1>>, <<-1, 0, 1>>, <<2, 0, 1>>, <<-1, 0, 1>>, <<-1, 0,
       1>>, <<2, 0, 1>>, <<2, 0, 1>>, <<-1, 0, 1>>, <<-1, 0, 1>>, <<-1, 0,
       1>>, <<-1, 0, 1>>, <<-1, 0, 1>>>>, <<<<-1, 0, 3>>, <<1, 0, 3>>, <<1,
       0, 3>>, <<-1, 0, 3>>, <<-1, 0, 3>>, <<0, 0, 1>>, <<0, 0, 1>>, <<1, 0,
       3>>, <<0, 0, 1>>, <<0, 0, 1>>, <<1, 0, 3>>, <<0, 0, 1>>, <<1, 0, 3>>,
       <<1, 0, 3>>, <<0, 0, 1>>, <<1, 0, 3>>, <<1, 0, 3>>, <<0, 0, 1>>, <<0,
       0, 1>>, <<-1, 0, 3>>, <<-1, 0, 3>>, <<-1, 0, 3>>, <<-1, 0, 3>>, <<-1,
       0, 3>>, <<1, 0, 3>>, <<-1, 0, 3>>, <<-1, 0, 3>>, <<1, 0, 3>>, <<1, 0,
       3>>, <<0, 0, 1>>, <<0, 0, 1>>, <<-1, 0, 3>>, <<0, 0, 1>>, <<0, 0,
       1>>, <<-1, 0, 3>>, <<0, 0, 1>>, <<-1, 0, 3>>, <<-1, 0, 3>>, <<0, 0,
       1>>, <<-1, 0, 3>>, <<-1, 0, 3>>, <<0, 0, 1>>, <<0, 0, 1>>, <<1, 0,
       3>>, <<1, 0, 3>>, <<1, 0, 3>>, <<1, 0, 3>>, <<1, 0, 3>>>>>>
    [] key = "OhP_T1MINUS" ->
       <<<<<<-1, 1, 1>>, <<-1, 1, 1>>, <<1, -1, 1>>, <<1, 1, 1>>, <<1, -1, 1>>,
       <<-1, -1, 1>>, <<1, -1, 1>>, <<-1, -1, 1>>, <<1, -1, 1>>, <<1, 1,
       1>>, <<1, -1, 1>>, <<-1, 1, 1>>, <<-1, 1, 1>>, <<1, 1, 1>>, <<-1, -1,
       1>>, <<-1, -1, 1>>, <<1, 1, 1>>, <<1, 1, 1>>, <<-1, 1, 1>>, <<-1, -1,
       1>>, <<-1, 1, 1>>, <<1, -1, 1>>, <<1, 1, 1>>, <<-1, -1, 1>>, <<1, -1,
       1>>, <<1, -1, 1>>, <<-1, 1, 1>>, <<-1, -1, 1>>, <<-1, 1, 1>>, <<1, 1,
       1>>, <<-1, 1, 1>>, <<1, 1, 1>>, <<-1, 1, 1>>, <<-1, -1, 1>>, <<-1, 1,
       1>>, <<1, -1, 1>>, <<1, -1, 1>>, <<-1, -1, 1>>, <<1, 1, 1>>, <<1, 1,
       1>>, <<-1, -1, 1>>, <<-1, -1, 1>>, <<1, -1, 1>>, <<1, 1, 1>>, <<1,
       -1, 1>>, <<-1, 1, 1>>, <<-1, -1, 1>>, <<1, 1, 1>>>>, <<<<1, 0, 2>>,
       <<-1, 0, 2>>, <<-1, 0, 2>>, <<1, 0, 2>>, <<-1, 0, 2>>, <<1, 0, 2>>,
       <<-1, 0, 2>>, <<-1, 0, 2>>, <<1, 0, 2>>, <<-1, 0, 2>>, <<1, 0, 2>>,
       <<1, 0, 2>>, <<1, 0, 2>>, <<-1, 0, 2>>, <<-1, 0, 2>>, <<1, 0, 2>>,
       <<1, 0, 2>>, <<1, 0, 2>>, <<-1, 0, 2>>, <<1, 0, 2>>, <<-1, 0, 2>>,
       <<1, 0, 2>>, <<-1, 0, 2>>, <<-1, 0, 2>>, <<-1, 0, 2>>, <<1, 0, 2>>,
       <<1, 0, 2>>, <<-1, 0, 2>>, <<1, 0, 2>>, <<-1, 0, 2>>, <<1, 0, 2>>,
       <<1, 0, 2>>, <<-1, 0, 2>>, <<1, 0, 2>>, <<-1, 0, 2>>, <<-1, 0, 2>>,
       <<-1, 0, 2>>, <<1, 0, 2>>, <<1, 0, 2>>, <<-1, 0, 2>>, <<-1, 0, 2>>,
       <<-1, 0, 2>>, <<1, 0, 2>>, <<-1, 0, 2>>, <<1, 0, 2>>, <<-1, 0, 2>>,
       <<1, 0, 2>>, <<1, 0, 2>>>>, <<<<1, 1, 1>>, <<1, 1, 1>>, <<-1, -1,
       1>>, <<-1, 1, 1>>, <<-1, -1, 1>>, <<1, -1, 1>>, <<-1, -1, 1>>, <<1,
       -1, 1>>, <<-1, -1, 1>>, <<-1, 1, 1>>, <<-1, -1, 1>>, <<1, 1, 1>>,
       <<1, 1, 1>>, <<-1, 1, 1>>, <<1, -1, 1>>, <<1, -1, 1>>, <<-1, 1, 1>>,
       <<-1, 1, 1>>, <<1, 1, 1>>, <<1, -1, 1>>, <<1, 1, 1>>, <<-1, -1, 1>>,
       <<-1, 1, 1>>, <<1, -1, 1>>, <<-1, -1, 1>>, <<-1, -1, 1>>, <<1, 1,
       1>>, <<1, -1, 1>>, <<1, 1, 1>>, <<-1, 1, 1>>, <<1, 1, 1>>, <<-1, 1,
       1>>, <<1, 1, 1>>, <<1, -1, 1>>, <<1, 1, 1>>, <<-1, -1, 1>>, <<-1, -1,
       1>>, <<1, -1, 1>>, <<-1, 1, 1>>, <<-1, 1, 1>>, <<1, -1, 1>>, <<1, -1,
       1>>, <<-1, -1, 1>>, <<-1, 1, 1>>, <<-1, -1, 1>>, <<1, 1, 1>>, <<1,
       -1, 1>>, <<-1, 1, 1>>>>>>
    [] key = "OhP_T2MINUS" ->
       <<<<<<1, 0, 2>>, <<-1, 0, 2>>, <<1, 0, 2>>, <<1, 0, 2>>, <<0, -1, 2>>, <<1,
       0, 2>>, <<0, 1, 2>>, <<-1, 0, 2>>, <<0, 1, 2>>, <<-1, 0, 2>>, <<0,
       -1, 2>>, <<0, -1, 2>>, <<0, 1, 2>>, <<1, 0, 2>>, <<1, 0, 2>>, <<0, 1,
       2>>, <<0, -1, 2>>, <<-1, 0, 2>>, <<0, -1, 2>>, <<-1, 0, 2>>, <<0, 1,
       2>>, <<-1, 0, 2>>, <<0, 1, 2>>, <<0, -1, 2>>, <<-1, 0, 2>>, <<1, 0,
       2>>, <<-1, 0, 2>>, <<-1, 0, 2>>, <<0, 1, 2>>, <<-1, 0, 2>>, <<0, -1,
       2>>, <<1, 0, 2>>, <<0, -1, 2>>, <<1, 0, 2>>, <<0, 1, 2>>, <<0, 1,
       2>>, <<0, -1, 2>>, <<-1, 0, 2>>, <<-1, 0, 2>>, <<0, -1, 2>>, <<0, 1,
       2>>, <<1, 0, 2>>, <<0, 1, 2>>, <<1, 0, 2>>, <<0, -1, 2>>, <<1, 0,
       2>>, <<0, -1, 2>>, <<0, 1, 2>>>>, <<<<1, -1, 1>>, <<1, -1, 1>>, <<1,
       -1, 1>>, <<1, -1, 1>>, <<-1, 1, 1>>, <<1, -1, 1>>, <<-1, 1, 1>>, <<1,
       -1, 1>>, <<-1, 1, 1>>, <<1, -1, 1>>, <<-1, 1, 1>>, <<-1, 1, 1>>,
       <<-1, 1, 1>>, <<1, -1, 1>>, <<1, -1, 1>>, <<-1, 1, 1>>, <<-1, 1, 1>>,
       <<1, -1, 1>>, <<-1, 1, 1>>, <<1, -1, 1>>, <<-1, 1, 1>>, <<1, -1, 1>>,
       <<-1, 1, 1>>, <<-1, 1, 1>>, <<-1, 1, 1>>, <<-1, 1, 1>>, <<-1, 1, 1>>,
       <<-1, 1, 1>>, <<1, -1, 1>>, <<-1, 1, 1>>, <<1, -1, 1>>, <<-1, 1, 1>>,
       <<1, -1, 1>>, <<-1, 1, 1>>, <<1, -1, 1>>, <<1, -1, 1>>, <<1, -1, 1>>,
       <<-1, 1, 1>>, <<-1, 1, 1>>, <<1, -1, 1>>, <<1, -1, 1>>, <<-1, 1, 1>>,
       <<1, -1, 1>>, <<-1, 1, 1>>, <<1, -1, 1>>, <<-1, 1, 1>>, <<1, -1, 1>>,
       <<1, -1, 1>>>>, <<<<0, -1, 2>>, <<0, 1, 2>>, <<0, -1, 2>>, <<0, -1,
       2>>, <<1, 0, 2>>, <<0, -1, 2>>, <<-1, 0, 2>>, <<0, 1, 2>>, <<-1, 0,
       2>>, <<0, 1, 2>>, <<1, 0, 2>>, <<1, 0, 2>>, <<-1, 0, 2>>, <<0, -1,
       2>>, <<0, -1, 2>>, <<-1, 0, 2>>, <<1, 0, 2>>, <<0, 1, 2>>, <<1, 0,
       2>>, <<0, 1, 2>>, <<-1, 0, 2>>, <<0, 1, 2>>, <<-1, 0, 2>>, <<1, 0,
       2>>, <<0, 1, 2>>, <<0, -1, 2>>, <<0, 1, 2>>, <<0, 1, 2>>, <<-1, 0,
       2>>, <<0, 1, 2>>, <<1, 0, 2>>, <<0, -1, 2>>, <<1, 0, 2>>, <<0, -1,
       2>>, <<-1, 0, 2>>, <<-1, 0, 2>>, <<1, 0, 2>>, <<0, 1, 2>>, <<0, 1,
       2>>, <<1, 0, 2>>, <<-1, 0, 2>>, <<0, -1, 2>>, <<-1, 0, 2>>, <<0, -1,
       2>>, <<1, 0, 2>>, <<0, -1, 2>>, <<1, 0, 2>>, <<-1, 0, 2>>>>>>
    [] key = "Dic4_A1" ->
       <<<<<<1, 0, 1>>, <<1, 0, 1>>, <<1, 0, 1>>, <<1, 0, 1>>, <<1, 0, 1>>, <<1, 0,
       1>>, <<1, 0, 1>>, <<1, 0, 1>>>>>>
    [] key = "Dic4_A2" ->
       <<<<<<1, 0, 1>>, <<1, 0, 1>>, <<1, 0, 1>>, <<1, 0, 1>>, <<-1, 0, 1>>, <<-1,
       0, 1>>, <<-1, 0, 1>>, <<-1, 0, 1>>>>>>
    [] key = "Dic4_B1" ->
       <<<<<<1, 0, 1>>, <<-1, 0, 1>>, <<-1, 0, 1>>, <<1, 0, 1>>, <<-1, 0, 1>>,
       <<-1, 0, 1>>, <<1, 0, 1>>, <<1, 0, 1>>>>>>
    [] key = "Dic4_B2" ->
       <<<<<<1, 0, 1>>, <<-1, 0, 1>>, <<-1, 0, 1>>, <<1, 0, 1>>, <<1, 0, 1>>, <<1,
       0, 1>>, <<-1, 0, 1>>, <<-1, 0, 1>>>>>>
    [] key = "Dic4_E2" ->
       <<<<<<0, 0, 1>>, <<0, -1, 2>>, <<0, 1, 2>>, <<0, 0, 1>>, <<0, -1, 2>>, <<0,
       1, 2>>, <<0, 0, 1>>, <<0, 0, 1>>>>, <<<<1, 0, 2>>, <<0, 0, 1>>, <<0,
       0, 1>>, <<-1, 0, 2>>, <<0, 0, 1>>, <<0, 0, 1>>, <<1, 0, 2>>, <<-1, 0,
       2>>>>>>
    [] key = "Dic2_A1" ->
       <<<<<<1, 0, 1>>, <<1, 0, 1>>, <<1, 0, 1>>, <<1, 0, 1>>>>>>
    [] key = "Dic2_A2" ->
       <<<<<<1, 0, 1>>, <<1, 0, 1>>, <<-1, 0, 1>>, <<-1, 0, 1>>>>>>
    [] key = "Dic2_B1" ->
       <<<<<<1, 0, 1>>, <<-1, 0, 1>>, <<-1, 0, 1>>, <<1, 0, 1>>>>>>
    [] key = "Dic2_B2" ->
       <<<<<<1, 0, 1>>, <<-1, 0, 1>>, <<1, 0, 1>>, <<-1, 0, 1>>>>>>

BTKeys ==
  {"OhP_A1PLUS", "OhP_A2PLUS", "OhP_EPLUS", "OhP_T1PLUS", "OhP_T2PLUS",
   "OhP_A1MINUS", "OhP_A2MINUS", "OhP_EMINUS", "OhP_T1MINUS", "OhP_T2MINUS",
   "Dic4_A1", "Dic4_A2", "Dic4_B1", "Dic4_B2", "Dic4_E2", "Dic2_A1",
   "Dic2_A2", "Dic2_B1", "Dic2_B2"}

(***************************************************************************)
(* Integer linear algebra on the 3-vectors and 3x3 matrices of the tables  *)
(***************************************************************************)
\* a sequence given by a rule, held as a tuple of computed entries (what np.array
\* holds), so that reading an entry never recomputes it
Stored(s) == s \o <<>>

\* u@v for two 3-vectors
Dot(u, v) == u[1]*v[1] + u[2]*v[2] + u[3]*v[3]

\* g@v: a 3x3 matrix acting on a 3-vector by left multiplication
MatVec(g, v) == <<Dot(g[1], v), Dot(g[2], v), Dot(g[3], v)>>

\* column c of a 3x3 matrix
Col(g, c) == <<g[1][c], g[2][c], g[3][c]>>

\* the exact integer product a@b of two 3x3 matrices
MatMul(a, b) ==
  Stored([r \in 1..3 |-> Stored([c \in 1..3 |-> Dot(a[r], Col(b, c))])])

\* the table stored under a group name, read from its last element to its first
GroupTable_Reversed(name) ==
  LET table == CASE name = "OhP" -> OhP [] name = "Dic4" -> Dic4 [] name = "Dic2" -> Dic2
  IN  [k \in 1..Len(table) |-> table[Len(table) + 1 - k]]

\* the table stored under a group name
GroupTable(name) ==
  CASE name = "OhP" -> OhP
    [] name = "Dic4" -> Dic4
    [] name = "Dic2" -> Dic2

GroupNames == {"OhP", "Dic4", "Dic2"}

Identity3 == <<<<1, 0, 0>>, <<0, 1, 0>>, <<0, 0, 1>>>>

\* the elements of a sequence, as a set
Range(s) == {s[k] : k \in 1..Len(s)}

(***************************************************************************)
(* Bounds of the model                                                     *)
(***************************************************************************)
\* total-momentum components range over -MaxMom..MaxMom
MaxMom == 1

Momenta == {<<x, y, z>> : x \in -MaxMom..MaxMom, y \in -MaxMom..MaxMom,
                          z \in -MaxMom..MaxMom}

(***************************************************************************)
(* Groups.get_little_group                                                 *)
(***************************************************************************)
\* the loop without its test: every element of OhP is kept
StabilizerLoop_NoTest(nP) == OhP

\* the fall-through loop of get_little_group: the elements of OhP that fix nP,
\* in table order
StabilizerLoop(nP) ==
  LET keep(g) == MatVec(g, nP) = nP
  IN  SelectSeq(OhP, keep)

\* get_little_group with the two hard-coded tables exchanged
get_little_group_Exchanged(nP) ==
  IF Dot(nP, nP) = 0
  THEN [outcome |-> "return", value |-> OhP]
  ELSE IF Dot(nP, nP) = 1 /\ nP = <<0, 0, 1>>
  THEN [outcome |-> "return", value |-> Dic2]
  ELSE IF Dot(nP, nP) = 2 /\ nP = <<0, 1, 1>>
  THEN [outcome |-> "return", value |-> Dic4]
  ELSE [outcome |-> "return", value |-> OhP]

\* get_little_group(nP): how the call ends and what it returns
get_little_group(nP) ==
  IF Dot(nP, nP) = 0
  THEN [outcome |-> "return", value |-> OhP]
  ELSE IF Dot(nP, nP) = 1 /\ nP = <<0, 0, 1>>
  THEN [outcome |-> "return", value |-> Dic4]
  ELSE IF Dot(nP, nP) = 2 /\ nP = <<0, 1, 1>>
  THEN [outcome |-> "return", value |-> Dic2]
  ELSE [outcome |-> "return", value |-> StabilizerLoop(nP)]

(***************************************************************************)
(* The calls of the group catalogue                                        *)
(***************************************************************************)
Init ==
  /\ op = "init"
  /\ arg = <<>>
  /\ outcome = "none"
  /\ result = <<>>

\* the object is constructed and no call has been made on it yet
Fresh == op = "init"

\* g1@g2 for two elements of one table
ComposeElements ==
  Fresh /\ \E name \in GroupNames :
    \E i \in 1..Len(GroupTable(name)), j \in 1..Len(GroupTable(name)) :
      /\ op' = "compose"
      /\ arg' = [group |-> name, i |-> i, j |-> j]
      /\ outcome' = "return"
      /\ result' = MatMul(GroupTable(name)[i], GroupTable(name)[j])

GetLittleGroup ==
  Fresh /\ \E nP \in Momenta :
    /\ op' = "get_little_group"
    /\ arg' = [nP |-> nP]
    /\ outcome' = get_little_group(nP).outcome
    /\ result' = get_little_group(nP).value

NextGroups == ComposeElements \/ GetLittleGroup

SpecGroups == Init /\ [][NextGroups]_vars

(***************************************************************************)
(* Properties of the group catalogue                                       *)
(***************************************************************************)
\* C1: each group table is closed under matrix multiplication: the exact integer
\* product of two elements of one table is an element of that same table.
C1_Closure ==
  op = "compose" =>
    \E k \in 1..Len(GroupTable(arg.group)) : GroupTable(arg.group)[k] = result

\* two elements of OhP whose product is a third element, not the identity
C1_Witness ==
  /\ op = "compose"
  /\ arg.group = "OhP"
  /\ result # Identity3
  /\ result # OhP[arg.i]
  /\ result # OhP[arg.j]
  /\ OhP[arg.i] # OhP[arg.j]

SupportedMomenta == {<<0, 0, 0>>, <<0, 0, 1>>, <<0, 1, 1>>}

\* C2: get_little_group returns the 48-element table for total momentum (0,0,0), the
\* 8-element table for (0,0,1) and the 4-element table for (0,1,1).
C2_LittleGroupOfRepresentatives ==
  op = "get_little_group" =>
    /\ arg.nP = <<0, 0, 0>> => outcome = "return" /\ result = OhP /\ Len(result) = 48
    /\ arg.nP = <<0, 0, 1>> => outcome = "return" /\ result = Dic4 /\ Len(result) = 8
    /\ arg.nP = <<0, 1, 1>> => outcome = "return" /\ result = Dic2 /\ Len(result) = 4

C2_Witness ==
  /\ op = "get_little_group"
  /\ arg.nP = <<0, 0, 1>>
  /\ outcome = "return"
  /\ Len(result) = 8

\* C3 as stated: get_little_group with any other nonzero total momentum ends in an
\* error and returns no group.
C3_UnsupportedMomentumRaises ==
  (op = "get_little_group" /\ arg.nP \notin SupportedMomenta) => outcome # "return"

\* C3, amended: get_little_group with any other nonzero total momentum raises nothing
\* and returns the stabilizer of the momentum inside OhP: every element returned is an
\* element of OhP that fixes nP, and every element of OhP that fixes nP is returned
\* (the identity among them).
C3_StabilizerReturned ==
  (op = "get_little_group" /\ arg.nP \notin SupportedMomenta) =>
    /\ outcome = "return"
    /\ \A k \in 1..Len(result) :
         /\ result[k] \in Range(OhP)
         /\ MatVec(result[k], arg.nP) = arg.nP
    /\ \A g \in Range(OhP) : MatVec(g, arg.nP) = arg.nP => g \in Range(result)
    /\ Identity3 \in Range(result)

\* the body diagonal (1,1,1) has a stabilizer of 6 elements
C3_Witness ==
  /\ op = "get_little_group"
  /\ arg.nP = <<1, 1, 1>>
  /\ outcome = "return"
  /\ Len(result) = 6

(***************************************************************************)
(* Matrices of any size, as sequences of rows                              *)
(***************************************************************************)
NRows(A) == Len(A)

NCols(A) == IF Len(A) = 0 THEN 0 ELSE Len(A[1])

\* the sum of f[k] over the members k of a finite set
RECURSIVE SumOver(_, _)
SumOver(f, S) ==
  IF S = {} THEN 0
  ELSE LET k == CHOOSE x \in S : TRUE
       IN  f[k] + SumOver(f, S \ {k})

\* A@B: entry (r, c) is the sum of A[r][k]*B[k][c] over k; the terms with A[r][k] = 0
\* add nothing and are left out of the sum
MatMulN(A, B) ==
  Stored([r \in 1..NRows(A) |->
    LET nonzero == {k \in 1..NCols(A) : A[r][k] # 0}
    IN  Stored([c \in 1..NCols(B) |->
          SumOver([k \in nonzero |-> A[r][k] * B[k][c]], nonzero)])])

\* A.T
Transpose(A) ==
  Stored([c \in 1..NCols(A) |-> Stored([r \in 1..NRows(A) |-> A[r][c]])])

\* np.kron(A, B)
Kron(A, B) ==
  LET p == NRows(B)
      q == NCols(B)
  IN  Stored([r \in 1..(NRows(A) * p) |->
        Stored([c \in 1..(NCols(A) * q) |->
          A[((r - 1) \div p) + 1][((c - 1) \div q) + 1]
            * B[((r - 1) % p) + 1][((c - 1) % q) + 1]])])

\* A*x for a number x
Scale(A, x) ==
  Stored([r \in 1..NRows(A) |-> Stored([c \in 1..NCols(A) |-> A[r][c] * x])])

\* np.zeros((n, n))
ZeroMatrix(n) == Stored([r \in 1..n |-> Stored([c \in 1..n |-> 0])])

\* np.zeros(n) with entry k set to 1.0
OneHot(n, k) == Stored([c \in 1..n |-> IF c = k THEN 1 ELSE 0])

\* the members of a finite set of integers in ascending order: the index array
\* np.where(...)[0]
RECURSIVE Ascending(_)
Ascending(S) ==
  IF S = {} THEN <<>>
  ELSE LET m == CHOOSE x \in S : \A y \in S : x <= y
       IN  <<m>> \o Ascending(S \ {m})

\* np.linalg.det of a 3x3 integer matrix
Det3(g) ==
    g[1][1] * (g[2][2] * g[3][3] - g[2][3] * g[3][2])
  - g[1][2] * (g[2][1] * g[3][3] - g[2][3] * g[3][1])
  + g[1][3] * (g[2][1] * g[3][2] - g[2][2] * g[3][1])

(***************************************************************************)
(* Groups.generate_wigner_d                                                *)
(***************************************************************************)
\* (-1.0)**ell
MinusOneTo(ell) == IF ell % 2 = 0 THEN 1 ELSE -1

\* generate_wigner_d(ell, g_elem) for ell = 0, the only angular momentum of the model:
\* the 1x1 block D[Dindex(0, 0, 0)] = 1 (unchanged by the 1x1 change of basis U = [1])
\* times the multiplier, (-1)**ell for an improper element and 1 for a proper one.
generate_wigner_d(ell, g_elem) ==
  LET multiplier == IF Det3(g_elem) < 0 THEN MinusOneTo(ell) ELSE 1
  IN  <<<<1 * multiplier>>>>

(***************************************************************************)
(* The induced-representation builders                                     *)
(***************************************************************************)
\* an entry of a configuration list is a sequence of momenta (one per particle);
\* the group element acts on each of them: g_elem@np.moveaxis(arr, 0, 2)
RotateEntry(g, e) == Stored([p \in 1..Len(e) |-> MatVec(g, e[p])])

\* PION_ORDERS of ampyl/constants.py, as 1-based positions
PION_ORDERS ==
  <<<<1, 2, 3>>, <<2, 3, 1>>, <<3, 1, 2>>, <<2, 1, 3>>, <<1, 3, 2>>, <<3, 2, 1>>>>

\* entry[pion_order]
Reorder(e, order) == Stored([p \in 1..Len(order) |-> e[order[p]]])

\* np.where(np.all(arr == entry, ...))[0], as a set of 1-based positions
Matches(arr, entry) == {k \in 1..Len(arr) : arr[k] = entry}

\* the located positions written down the columns instead of along the rows
RowsFrom_Transposed(loc_inds) ==
  Stored([i \in 1..Len(loc_inds) |->
            Stored([c \in 1..Len(loc_inds) |-> IF loc_inds[c] = i THEN 1 ELSE 0])])

\* the permutation matrix assembled from the located positions
RowsFrom(loc_inds) ==
  Stored([i \in 1..Len(loc_inds) |-> OneHot(Len(loc_inds), loc_inds[i])])

\* every spin passes for an integer
IsIntegerSpin_Always(twice_spin) == TRUE

\* twice a spin given as a float: a spin is an integer iff this is even
IsIntegerSpin(twice_spin) == twice_spin % 2 = 0

\* generate_induced_rep_kellm(nvec_arr, ellm_set, g_elem), ellm_set a list of [ell, m]
generate_induced_rep_kellm(nvec_arr, ellm_set, g_elem) ==
  LET loc == Stored([i \in 1..Len(nvec_arr) |->
               Matches(nvec_arr, MatVec(g_elem, nvec_arr[i]))])
      ell_set == {ellm_set[k][1] : k \in 1..Len(ellm_set)}
  IN  IF \E i \in 1..Len(nvec_arr) : loc[i] = {}
      THEN [outcome |-> "IndexError", value |-> <<>>]
      ELSE LET loc_inds == Stored([i \in 1..Len(nvec_arr) |-> Ascending(loc[i])[1]])
               \* block_diag over the unique ell values; the lists of the model hold one
               ell == CHOOSE l \in ell_set : TRUE
               wig_d_block == Transpose(generate_wigner_d(ell, g_elem))
           IN  [outcome |-> "return", value |-> Kron(RowsFrom(loc_inds), wig_d_block)]

\* the swapped entry is never looked for
TwoParticleLoc_DirectOnly(nvecset_batched, g_elem, particles_are_identical, i) ==
  Ascending(Matches(nvecset_batched, RotateEntry(g_elem, nvecset_batched[i])))

\* the positions collected for entry i by generate_induced_rep_nonint_two_particles
TwoParticleLoc(nvecset_batched, g_elem, particles_are_identical, i) ==
  LET rot == RotateEntry(g_elem, nvecset_batched[i])
      direct == Ascending(Matches(nvecset_batched, rot))
      swap == Ascending(Matches(nvecset_batched, <<rot[2], rot[1]>>))
  IN  IF particles_are_identical THEN direct \o swap ELSE direct

\* the first position found is taken without a check of the number of positions, as
\* generate_induced_rep_kellm does
generate_induced_rep_nonint_two_particles_FirstMatch(nvecset_batched, first_spin2, second_spin2, g_elem, particles_are_identical) ==
  LET loc == Stored([i \in 1..Len(nvecset_batched) |->
                TwoParticleLoc(nvecset_batched, g_elem, particles_are_identical, i)])
  IN  IF \E i \in 1..Len(nvecset_batched) : Len(loc[i]) = 0
      THEN [outcome |-> "IndexError", value |-> <<>>]
      ELSE IF ~IsIntegerSpin(first_spin2) \/ ~IsIntegerSpin(second_spin2)
      THEN [outcome |-> "AssertionError", value |-> <<>>]
      ELSE LET loc_inds == Stored([i \in 1..Len(nvecset_batched) |-> loc[i][1]])
               wig_d_first_spin == Transpose(generate_wigner_d(first_spin2 \div 2, g_elem))
               wig_d_second_spin == Transpose(generate_wigner_d(second_spin2 \div 2, g_elem))
               induced_rep_tmp == Kron(RowsFrom(loc_inds), wig_d_first_spin)
           IN  [outcome |-> "return", value |-> Kron(induced_rep_tmp, wig_d_second_spin)]

\* generate_induced_rep_nonint_two_particles; the spins are given as twice their value
generate_induced_rep_nonint_two_particles(nvecset_batched, first_spin2, second_spin2, g_elem, particles_are_identical) ==
  LET loc == Stored([i \in 1..Len(nvecset_batched) |->
                TwoParticleLoc(nvecset_batched, g_elem, particles_are_identical, i)])
      ok(i) == IF Len(loc[i]) = 2 THEN loc[i][1] = loc[i][2] ELSE Len(loc[i]) = 1
  IN  IF \E i \in 1..Len(nvecset_batched) : ~ok(i)
      THEN [outcome |-> "AssertionError", value |-> <<>>]
      ELSE IF ~IsIntegerSpin(first_spin2) \/ ~IsIntegerSpin(second_spin2)
      THEN [outcome |-> "AssertionError", value |-> <<>>]
      ELSE LET loc_inds == Stored([i \in 1..Len(nvecset_batched) |-> loc[i][1]])
               wig_d_first_spin == Transpose(generate_wigner_d(first_spin2 \div 2, g_elem))
               wig_d_second_spin == Transpose(generate_wigner_d(second_spin2 \div 2, g_elem))
               induced_rep_tmp == Kron(RowsFrom(loc_inds), wig_d_first_spin)
           IN  [outcome |-> "return", value |-> Kron(induced_rep_tmp, wig_d_second_spin)]

\* np.unique of the positions at which the rotated entry i, in any pion order, is found
ThreeParticleLoc(identical_arr, g_elem, i) ==
  LET rot == RotateEntry(g_elem, identical_arr[i])
  IN  UNION {Matches(identical_arr, Reorder(rot, PION_ORDERS[o])) : o \in 1..Len(PION_ORDERS)}

\* generate_induced_rep_nonint_three_scalars
generate_induced_rep_nonint_three_scalars(identical_arr, nonidentical_arr, g_elem, definite_iso) ==
  LET loc == Stored([i \in 1..Len(identical_arr) |->
               ThreeParticleLoc(identical_arr, g_elem, i)])
      nloc == Stored([i \in 1..Len(nonidentical_arr) |->
                 Matches(nonidentical_arr, RotateEntry(g_elem, nonidentical_arr[i]))])
  IN  IF \E i \in 1..Len(identical_arr) : Cardinality(loc[i]) # 1
      THEN [outcome |-> "AssertionError", value |-> <<>>]
      ELSE IF definite_iso /\ \E i \in 1..Len(nonidentical_arr) : Cardinality(nloc[i]) # 1
      THEN [outcome |-> "AssertionError", value |-> <<>>]
      ELSE LET ident_inds == Stored([i \in 1..Len(identical_arr) |->
                               Ascending(loc[i])[1]])
               rest_inds == Stored([i \in 1..Len(nonidentical_arr) |->
                               Ascending(nloc[i])[1] + Len(identical_arr)])
               loc_inds == IF definite_iso THEN ident_inds \o rest_inds ELSE ident_inds
           IN  [outcome |-> "return", value |-> RowsFrom(loc_inds)]

\* generate_induced_rep_nonint_three_particles_spin on the integer-spin path
\* (self.spin_half = False); the spins are given as twice their value
generate_induced_rep_nonint_three_particles_spin(identical_arr, nonidentical_arr, first_spin2, second_spin2, third_spin2, g_elem, definite_iso) ==
  LET loc == Stored([i \in 1..Len(identical_arr) |->
               ThreeParticleLoc(identical_arr, g_elem, i)])
  IN  IF \E i \in 1..Len(identical_arr) : Cardinality(loc[i]) # 1
      THEN [outcome |-> "AssertionError", value |-> <<>>]
      ELSE IF \/ ~IsIntegerSpin(first_spin2)
              \/ ~IsIntegerSpin(second_spin2)
              \/ ~IsIntegerSpin(third_spin2)
      THEN [outcome |-> "ValueError", value |-> <<>>]
      ELSE LET loc_inds == Stored([i \in 1..Len(identical_arr) |-> Ascending(loc[i])[1]])
               wig_d_first_spin == Transpose(generate_wigner_d(first_spin2 \div 2, g_elem))
               wig_d_second_spin == Transpose(generate_wigner_d(second_spin2 \div 2, g_elem))
               wig_d_third_spin == Transpose(generate_wigner_d(third_spin2 \div 2, g_elem))
               induced_rep_tmp == Kron(RowsFrom(loc_inds), wig_d_first_spin)
               induced_rep_tmp2 == Kron(induced_rep_tmp, wig_d_second_spin)
           IN  [outcome |-> "return", value |-> Kron(induced_rep_tmp2, wig_d_third_spin)]

(***************************************************************************)
(* Configuration spaces handed to the builders                             *)
(***************************************************************************)
\* seed momenta have non-negative components and squared length <= MaxNormSq
MaxNormSq == 1

SeedMomenta ==
  {n \in {<<x, y, z>> : x \in 0..MaxNormSq, y \in 0..MaxNormSq, z \in 0..MaxNormSq} :
     Dot(n, n) <= MaxNormSq}

Neg(v) == <<-v[1], -v[2], -v[3]>>

Zero3 == <<0, 0, 0>>

\* an entry with its particles relabelled in every way
Relabellings(e) ==
  IF Len(e) = 3 THEN {Reorder(e, PION_ORDERS[o]) : o \in 1..Len(PION_ORDERS)}
  ELSE IF Len(e) = 2 THEN {e, <<e[2], e[1]>>}
  ELSE {e}

\* the images of a seed entry under the elements of OhP in table order, each kept the
\* first time it appears; for identical particles an image that is a relabelling of
\* an entry already kept is not a new entry
RECURSIVE OrbitFrom(_, _, _, _)
OrbitFrom(seed, k, acc, identical) ==
  IF k > Len(OhP) THEN acc
  ELSE LET e == RotateEntry(OhP[k], seed)
           same == IF identical THEN Relabellings(e) ELSE {e}
       IN  IF \E m \in 1..Len(acc) : acc[m] \in same
           THEN OrbitFrom(seed, k + 1, acc, identical)
           ELSE OrbitFrom(seed, k + 1, Append(acc, e), identical)

Orbit(seed, identical) == OrbitFrom(seed, 1, <<>>, identical)

\* a list as it is, with its first entry listed a second time, and without its last
\* entry
Variants(L) ==
  {L, Append(L, L[1])} \cup (IF Len(L) > 1 THEN {SubSeq(L, 1, Len(L) - 1)} ELSE {})

\* lists of single momenta
KellmSpaces ==
  UNION {Variants([k \in 1..Len(Orbit(<<n>>, FALSE)) |-> Orbit(<<n>>, FALSE)[k][1]]) :
           n \in SeedMomenta}

\* back-to-back pairs
PairSeeds == {<<n, Neg(n)>> : n \in SeedMomenta}

PairSpaces == UNION {Variants(Orbit(s, id)) : s \in PairSeeds, id \in BOOLEAN}

\* triples of vanishing total momentum
TripleSeeds == {<<n, Neg(n), Zero3>> : n \in SeedMomenta}

\* an identical-particle list with the list of ordered triples it comes with
ThreeScalarSpaces ==
  UNION {{<<i, n>> : i \in Variants(Orbit(s, TRUE)), n \in Variants(Orbit(s, FALSE))} :
           s \in TripleSeeds}

ThreeSpinSpaces ==
  UNION {{<<i, Orbit(s, FALSE)>> : i \in Variants(Orbit(s, TRUE))} : s \in TripleSeeds}

\* the group elements handed to the builders
Elements == Range(OhP)

\* twice the spin of a particle: spin 0 and spin 1/2
TwiceSpins == {0, 1}

\* the one ellm_set of the model: ell = 0, m = 0
EllmSets == {<<<<0, 0>>>>}

(***************************************************************************)
(* Calls of the induced-representation builders                            *)
(***************************************************************************)
GenerateInducedRepKellm ==
  Fresh /\ \E nvec_arr \in KellmSpaces, ellm_set \in EllmSets, g \in Elements :
    LET r == generate_induced_rep_kellm(nvec_arr, ellm_set, g)
    IN  /\ op' = "generate_induced_rep_kellm"
        /\ arg' = [nvec_arr |-> nvec_arr, ellm_set |-> ellm_set, g_elem |-> g]
        /\ outcome' = r.outcome
        /\ result' = r.value

GenerateInducedRepTwoParticles ==
  Fresh /\ \E nvecset_batched \in PairSpaces, s1 \in TwiceSpins, s2 \in TwiceSpins,
     g \in Elements, identical \in BOOLEAN :
    LET r == generate_induced_rep_nonint_two_particles(nvecset_batched, s1, s2, g,
                                                       identical)
    IN  /\ op' = "generate_induced_rep_nonint_two_particles"
        /\ arg' = [nvecset_batched |-> nvecset_batched, first_spin2 |-> s1,
                   second_spin2 |-> s2, g_elem |-> g,
                   particles_are_identical |-> identical]
        /\ outcome' = r.outcome
        /\ result' = r.value

GenerateInducedRepThreeScalars ==
  Fresh /\ \E space \in ThreeScalarSpaces, g \in Elements, definite_iso \in BOOLEAN :
      LET identical_arr == space[1]
          nonidentical_arr == space[2]
          r == generate_induced_rep_nonint_three_scalars(identical_arr, nonidentical_arr,
                                                         g, definite_iso)
      IN  /\ op' = "generate_induced_rep_nonint_three_scalars"
          /\ arg' = [identical_arr |-> identical_arr,
                     nonidentical_arr |-> nonidentical_arr, g_elem |-> g,
                     definite_iso |-> definite_iso]
          /\ outcome' = r.outcome
          /\ result' = r.value

GenerateInducedRepThreeParticlesSpin ==
  Fresh /\ \E space \in ThreeSpinSpaces, g \in Elements, definite_iso \in BOOLEAN,
     s1 \in TwiceSpins, s2 \in TwiceSpins, s3 \in TwiceSpins :
      LET identical_arr == space[1]
          nonidentical_arr == space[2]
          r == generate_induced_rep_nonint_three_particles_spin(
                 identical_arr, nonidentical_arr, s1, s2, s3, g, definite_iso)
      IN  /\ op' = "generate_induced_rep_nonint_three_particles_spin"
          /\ arg' = [identical_arr |-> identical_arr,
                     nonidentical_arr |-> nonidentical_arr, first_spin2 |-> s1,
                     second_spin2 |-> s2, third_spin2 |-> s3, g_elem |-> g,
                     definite_iso |-> definite_iso]
          /\ outcome' = r.outcome
          /\ result' = r.value

NextRep ==
  \/ GenerateInducedRepKellm
  \/ GenerateInducedRepTwoParticles
  \/ GenerateInducedRepThreeScalars
  \/ GenerateInducedRepThreeParticlesSpin

SpecRep == Init /\ [][NextRep]_vars

\* the calls of the two builders without spin arguments
NextHom ==
  \/ GenerateInducedRepKellm
  \/ GenerateInducedRepThreeScalars

SpecHom == Init /\ [][NextHom]_vars

(***************************************************************************)
(* Properties of the induced-representation builders                       *)
(***************************************************************************)
\* the builder of the last call, on the same configuration space, for an element g
SameBuilder(g) ==
  IF op = "generate_induced_rep_kellm"
  THEN generate_induced_rep_kellm(arg.nvec_arr, arg.ellm_set, g)
  ELSE generate_induced_rep_nonint_three_scalars(arg.identical_arr, arg.nonidentical_arr,
                                                 g, arg.definite_iso)

\* the last call is a builder of C5 and returned a matrix
ReturnedInducedRep ==
  /\ op \in {"generate_induced_rep_kellm", "generate_induced_rep_nonint_three_scalars"}
  /\ outcome = "return"

\* C5 as stated: on a configuration space closed under the group,
\* InducedRep(g1) InducedRep(g2) = InducedRep(g1 g2) for every pair g1, g2.
C5_Homomorphism ==
  ReturnedInducedRep =>
    \A g2 \in Elements :
      LET rep2 == SameBuilder(g2)
          rep12 == SameBuilder(MatMul(arg.g_elem, g2))
      IN  (rep2.outcome = "return" /\ rep12.outcome = "return")
            => MatMulN(result, rep2.value) = rep12.value

\* C5, amended: the builders reverse the order of a product,
\* InducedRep(g1) InducedRep(g2) = InducedRep(g2 g1) for every pair g1, g2
\* (which is InducedRep(g1 g2) when g1 and g2 commute).
C5_AntiHomomorphism ==
  ReturnedInducedRep =>
    \A g2 \in Elements :
      LET rep2 == SameBuilder(g2)
          rep21 == SameBuilder(MatMul(g2, arg.g_elem))
      IN  (rep2.outcome = "return" /\ rep21.outcome = "return")
            => MatMulN(result, rep2.value) = rep21.value

\* a returned matrix on a space where some element g2 does not commute with it
C5_Witness ==
  /\ ReturnedInducedRep
  /\ \E g2 \in Elements :
       LET rep2 == SameBuilder(g2)
       IN  /\ rep2.outcome = "return"
           /\ MatMulN(result, rep2.value) # MatMulN(rep2.value, result)
           /\ SameBuilder(MatMul(g2, arg.g_elem)).outcome = "return"

\* the positions of the original list whose entry equals the given entry, for identical
\* particles up to a relabelling of the particles
MatchPositions(list, entry, identical) ==
  {k \in 1..Len(list) : list[k] \in (IF identical THEN Relabellings(entry) ELSE {entry})}

\* some rotated entry of the last call is found at no position of the original list, or
\* at more than one
SomeEntryNotFoundOnce ==
  CASE op = "generate_induced_rep_kellm" ->
         \E i \in 1..Len(arg.nvec_arr) :
           Cardinality(MatchPositions(arg.nvec_arr,
                                      MatVec(arg.g_elem, arg.nvec_arr[i]), FALSE)) # 1
    [] op = "generate_induced_rep_nonint_two_particles" ->
         \E i \in 1..Len(arg.nvecset_batched) :
           Cardinality(MatchPositions(arg.nvecset_batched,
                                      RotateEntry(arg.g_elem, arg.nvecset_batched[i]),
                                      arg.particles_are_identical)) # 1
    [] op = "generate_induced_rep_nonint_three_scalars" ->
         \/ \E i \in 1..Len(arg.identical_arr) :
              Cardinality(MatchPositions(arg.identical_arr,
                                         RotateEntry(arg.g_elem, arg.identical_arr[i]),
                                         TRUE)) # 1
         \/ /\ arg.definite_iso
            /\ \E i \in 1..Len(arg.nonidentical_arr) :
                 Cardinality(MatchPositions(arg.nonidentical_arr,
                                            RotateEntry(arg.g_elem, arg.nonidentical_arr[i]),
                                            FALSE)) # 1
    [] op = "generate_induced_rep_nonint_three_particles_spin" ->
         \E i \in 1..Len(arg.identical_arr) :
           Cardinality(MatchPositions(arg.identical_arr,
                                      RotateEntry(arg.g_elem, arg.identical_arr[i]),
                                      TRUE)) # 1
    [] OTHER -> FALSE

\* C6: in all four builders, a rotated entry that equals no entry of the original list,
\* or more than one, makes the call fail: no matrix is returned.
C6_BadMatchIsFatal ==
  SomeEntryNotFoundOnce => outcome # "return"

(***************************************************************************)
(* The projector builders                                                  *)
(***************************************************************************)
\* the value handed back by "return ValueError(...)": an exception object, not raised
ValueErrorObject ==
  [exception |-> "ValueError", text |-> "group not yet supported by get_large_proj"]

\* the if/elif chain on nP at the head of every projector builder
group_str(nP) ==
  IF nP = <<0, 0, 0>> THEN "OhP"
  ELSE IF nP = <<0, 0, 1>> THEN "Dic4"
  ELSE IF nP = <<0, 1, 1>> THEN "Dic2"
  ELSE "unsupported"

\* the weights are read from the basis rows of bTdict, their coefficients as they stand
chardict_row_FromBasis(key, irow) ==
  IF key \notin CharKeys THEN [outcome |-> "KeyError", value |-> <<>>]
  ELSE IF irow + 1 > Len(bTdict(key)) THEN [outcome |-> "IndexError", value |-> <<>>]
  ELSE [outcome |-> "return",
        value |-> [g \in 1..Len(bTdict(key)[irow + 1]) |-> bTdict(key)[irow + 1][g][1]]]

\* self.chardict[group_str+'_'+irrep][irow], irow counted from 0: the row, or the error
\* of the lookup
chardict_row(key, irow) ==
  IF key \notin CharKeys THEN [outcome |-> "KeyError", value |-> <<>>]
  ELSE IF irow + 1 > Len(chardict(key)) THEN [outcome |-> "IndexError", value |-> <<>>]
  ELSE [outcome |-> "return", value |-> chardict(key)[irow + 1]]

\* self.bTdict[group_str+'_'+irrep][irrep_row]
bTdict_row(key, irrep_row) ==
  IF key \notin BTKeys THEN [outcome |-> "KeyError", value |-> <<>>]
  ELSE IF irrep_row + 1 > Len(bTdict(key)) THEN [outcome |-> "IndexError", value |-> <<>>]
  ELSE [outcome |-> "return", value |-> bTdict(key)[irrep_row + 1]]

Max(a, b) == IF a >= b THEN a ELSE b

\* numpy adds a 1 x 1 array to every entry of a larger one; other unequal sizes do not add
Broadcastable(a, b) == a = b \/ a = 1 \/ b = 1

\* entry (r, c) of a matrix that takes part in an addition of a larger size
EntryOf(A, r, c) == IF Len(A) = 1 THEN A[1][1] ELSE A[r][c]

\* only the term of the last element is kept: proj = induced_rep*bT[g_ind]
WeightedSum_LastOnly(reps, bT, dim) ==
  Stored([r \in 1..dim |-> Stored([c \in 1..dim |->
            EntryOf(reps[Len(reps)], r, c) * bT[Len(reps)]])])

\* proj = proj + induced_rep*bT[g_ind] over the elements, from proj = np.zeros((dim, dim))
WeightedSum(reps, bT, dim) ==
  Stored([r \in 1..dim |-> Stored([c \in 1..dim |->
            SumOver([g \in 1..Len(reps) |-> EntryOf(reps[g], r, c) * bT[g]],
                    {g \in 1..Len(reps) : EntryOf(reps[g], r, c) # 0})])])

\* the multiples of sqrt(rt) among the weights of a bTdict row: real parts (part = 1) or
\* imaginary parts (part = 2)
Component(bT, rt, part) ==
  Stored([g \in 1..Len(bT) |-> IF bT[g][3] = rt THEN bT[g][part] ELSE 0])

\* a sum with bTdict weights: every entry is <<<<a1, b1>>, <<a2, b2>>, <<a3, b3>>>>, the
\* number (a1 + b1 i) + (a2 + b2 i) sqrt(2) + (a3 + b3 i) sqrt(3)
ComplexWeightedSum(reps, bT, dim) ==
  LET part(rt, p) == WeightedSum(reps, Component(bT, rt, p), dim)
      re1 == part(1, 1)
      im1 == part(1, 2)
      re2 == part(2, 1)
      im2 == part(2, 2)
      re3 == part(3, 1)
      im3 == part(3, 2)
  IN  Stored([r \in 1..dim |-> Stored([c \in 1..dim |->
        <<<<re1[r][c], im1[r][c]>>, <<re2[r][c], im2[r][c]>>,
          <<re3[r][c], im3[r][c]>>>>])])

\* the loop over the group: calls holds the builder's outcome for each element in turn.
\* The first call that fails ends the loop with its error; so does an addition of
\* sizes that do not go together.
FirstFailure(calls) ==
  IF \E g \in 1..Len(calls) : calls[g].outcome # "return"
  THEN calls[CHOOSE g \in 1..Len(calls) :
               /\ calls[g].outcome # "return"
               /\ \A h \in 1..(g - 1) : calls[h].outcome = "return"].outcome
  ELSE "return"

\* the sizes of the returned matrices go together with proj, which starts dim x dim and
\* takes the size of the sum
SizesAdd(calls, dim) == Broadcastable(Len(calls[1].value), dim)

\* get_kellm_proj(nP, irrep, irrep_row, nvec_arr, ellm_set)
get_kellm_proj(nP, irrep, irrep_row, nvec_arr, ellm_set) ==
  IF group_str(nP) = "unsupported"
  THEN [outcome |-> "return", value |-> ValueErrorObject]
  ELSE
    LET group == GroupTable(group_str(nP))
        bT == bTdict_row(group_str(nP) \o "_" \o irrep, irrep_row)
        dim == Len(nvec_arr) * Len(ellm_set)
        calls == [g \in 1..Len(group) |->
                    generate_induced_rep_kellm(nvec_arr, ellm_set, group[g])]
        reps == Stored([g \in 1..Len(group) |-> calls[g].value])
    IN  IF bT.outcome # "return" THEN bT
        ELSE IF FirstFailure(calls) # "return"
        THEN [outcome |-> FirstFailure(calls), value |-> <<>>]
        ELSE IF ~SizesAdd(calls, dim) THEN [outcome |-> "ValueError", value |-> <<>>]
        ELSE [outcome |-> "return",
              value |-> ComplexWeightedSum(reps, bT.value, Max(dim, Len(reps[1])))]

\* get_proj_nonint_three_scalars(nP, irrep, irow, identical_arr, nonidentical_arr, definite_iso)
get_proj_nonint_three_scalars(nP, irrep, irow, identical_arr, nonidentical_arr, definite_iso) ==
  IF group_str(nP) = "unsupported"
  THEN [outcome |-> "return", value |-> ValueErrorObject]
  ELSE
    LET group == GroupTable(group_str(nP))
        bT == chardict_row(group_str(nP) \o "_" \o irrep, irow)
        dim == IF definite_iso THEN Len(identical_arr) + Len(nonidentical_arr)
               ELSE Len(identical_arr)
        calls == [g \in 1..Len(group) |->
                    generate_induced_rep_nonint_three_scalars(
                      identical_arr, nonidentical_arr, group[g], definite_iso)]
        reps == Stored([g \in 1..Len(group) |-> calls[g].value])
    IN  IF bT.outcome # "return" THEN bT
        ELSE IF FirstFailure(calls) # "return"
        THEN [outcome |-> FirstFailure(calls), value |-> <<>>]
        ELSE IF ~SizesAdd(calls, dim) THEN [outcome |-> "ValueError", value |-> <<>>]
        ELSE [outcome |-> "return",
              value |-> WeightedSum(reps, bT.value, Max(dim, Len(reps[1])))]

\* get_proj_nonint_three_particles_spin with self.spin_half = False; the spins are given
\* as twice their value
get_proj_nonint_three_particles_spin(nP, irrep, irow, identical_arr, nonidentical_arr, first_spin2, second_spin2, third_spin2, definite_iso) ==
  IF group_str(nP) = "unsupported"
  THEN [outcome |-> "return", value |-> ValueErrorObject]
  ELSE
    LET group == GroupTable(group_str(nP))
        bT == chardict_row(group_str(nP) \o "_" \o irrep, irow)
        total_spin_dimension == (first_spin2 + 1) * (second_spin2 + 1) * (third_spin2 + 1)
        dim == (IF definite_iso THEN Len(identical_arr) + Len(nonidentical_arr)
                ELSE Len(identical_arr)) * total_spin_dimension
        calls == [g \in 1..Len(group) |->
                    generate_induced_rep_nonint_three_particles_spin(
                      identical_arr, nonidentical_arr, first_spin2, second_spin2,
                      third_spin2, group[g], definite_iso)]
        reps == Stored([g \in 1..Len(group) |-> calls[g].value])
    IN  IF bT.outcome # "return" THEN bT
        ELSE IF FirstFailure(calls) # "return"
        THEN [outcome |-> FirstFailure(calls), value |-> <<>>]
        ELSE IF ~SizesAdd(calls, dim) THEN [outcome |-> "ValueError", value |-> <<>>]
        ELSE [outcome |-> "return",
              value |-> WeightedSum(reps, bT.value, Max(dim, Len(reps[1])))]

\* get_proj_nonint_two_particles; the spins are given as twice their value
get_proj_nonint_two_particles(nP, irrep, irow, nvecset_batched, first_spin2, second_spin2, particles_are_identical) ==
  IF group_str(nP) = "unsupported"
  THEN [outcome |-> "return", value |-> ValueErrorObject]
  ELSE
    LET group == GroupTable(group_str(nP))
        bT == chardict_row(group_str(nP) \o "_" \o irrep, irow)
        total_spin_dimension == (first_spin2 + 1) * (second_spin2 + 1)
        dim == Len(nvecset_batched) * total_spin_dimension
        calls == [g \in 1..Len(group) |->
                    generate_induced_rep_nonint_two_particles(
                      nvecset_batched, first_spin2, second_spin2, group[g],
                      particles_are_identical)]
        reps == Stored([g \in 1..Len(group) |-> calls[g].value])
    IN  IF bT.outcome # "return" THEN bT
        ELSE IF FirstFailure(calls) # "return"
        THEN [outcome |-> FirstFailure(calls), value |-> <<>>]
        ELSE IF ~SizesAdd(calls, dim) THEN [outcome |-> "ValueError", value |-> <<>>]
        ELSE [outcome |-> "return",
              value |-> WeightedSum(reps, bT.value, Max(dim, Len(reps[1])))]

(***************************************************************************)
(* Calls of the projector builders                                         *)
(***************************************************************************)
\* total momenta with no negative component
ProjMomenta == {n \in Momenta : n[1] >= 0 /\ n[2] >= 0 /\ n[3] >= 0}

\* irrep labels of the three groups
Irreps == {"A1PLUS", "A2PLUS", "EPLUS", "T1MINUS", "A1", "E2"}

\* irrep_row / irow
IrrepRows == {0, 1}

\* a pair listed in both orders of its two momenta
BothOrders(s) == <<s, <<s[2], s[1]>>>>

ProjPairSpaces ==
  UNION {{Orbit(s, TRUE), Orbit(s, FALSE), BothOrders(s)} : s \in PairSeeds}

GetKellmProj ==
  Fresh /\ \E nP \in ProjMomenta, irrep \in Irreps, irrep_row \in IrrepRows,
              nvec_arr \in KellmSpaces, ellm_set \in EllmSets :
    LET r == get_kellm_proj(nP, irrep, irrep_row, nvec_arr, ellm_set)
    IN  /\ op' = "get_kellm_proj"
        /\ arg' = [nP |-> nP, irrep |-> irrep, irrep_row |-> irrep_row,
                   nvec_arr |-> nvec_arr, ellm_set |-> ellm_set]
        /\ outcome' = r.outcome
        /\ result' = r.value

GetProjNonintThreeScalars ==
  Fresh /\ \E nP \in ProjMomenta, irrep \in Irreps, irow \in IrrepRows,
              space \in ThreeScalarSpaces, definite_iso \in BOOLEAN :
    LET r == get_proj_nonint_three_scalars(nP, irrep, irow, space[1], space[2],
                                           definite_iso)
    IN  /\ op' = "get_proj_nonint_three_scalars"
        /\ arg' = [nP |-> nP, irrep |-> irrep, irow |-> irow,
                   identical_arr |-> space[1], nonidentical_arr |-> space[2],
                   definite_iso |-> definite_iso]
        /\ outcome' = r.outcome
        /\ result' = r.value

GetProjNonintThreeParticlesSpin ==
  Fresh /\ \E nP \in ProjMomenta, irrep \in Irreps, irow \in IrrepRows,
              space \in ThreeSpinSpaces, definite_iso \in BOOLEAN,
              s1 \in TwiceSpins, s2 \in TwiceSpins, s3 \in TwiceSpins :
    LET r == get_proj_nonint_three_particles_spin(nP, irrep, irow, space[1], space[2],
                                                  s1, s2, s3, definite_iso)
    IN  /\ op' = "get_proj_nonint_three_particles_spin"
        /\ arg' = [nP |-> nP, irrep |-> irrep, irow |-> irow,
                   identical_arr |-> space[1], nonidentical_arr |-> space[2],
                   first_spin2 |-> s1, second_spin2 |-> s2, third_spin2 |-> s3,
                   definite_iso |-> definite_iso]
        /\ outcome' = r.outcome
        /\ result' = r.value

GetProjNonintTwoParticles ==
  Fresh /\ \E nP \in ProjMomenta, irrep \in Irreps, irow \in IrrepRows,
              nvecset_batched \in ProjPairSpaces, s1 \in TwiceSpins, s2 \in TwiceSpins,
              identical \in BOOLEAN :
    LET r == get_proj_nonint_two_particles(nP, irrep, irow, nvecset_batched, s1, s2,
                                           identical)
    IN  /\ op' = "get_proj_nonint_two_particles"
        /\ arg' = [nP |-> nP, irrep |-> irrep, irow |-> irow,
                   nvecset_batched |-> nvecset_batched, first_spin2 |-> s1,
                   second_spin2 |-> s2, particles_are_identical |-> identical]
        /\ outcome' = r.outcome
        /\ result' = r.value

NextProj ==
  \/ GetKellmProj
  \/ GetProjNonintThreeScalars
  \/ GetProjNonintThreeParticlesSpin
  \/ GetProjNonintTwoParticles

SpecProj == Init /\ [][NextProj]_vars

(***************************************************************************)
(* Properties of the projector builders                                    *)
(***************************************************************************)
ProjectorBuilders ==
  {"get_kellm_proj", "get_proj_nonint_three_scalars",
   "get_proj_nonint_three_particles_spin", "get_proj_nonint_two_particles"}

\* C4: every projector builder, called with a total momentum that is none of (0,0,0),
\* (0,0,1), (0,1,1), aborts the call with an error; the caller receives no normal
\* return value.
C4_UnsupportedMomentumAborts ==
  (op \in ProjectorBuilders /\ arg.nP \notin SupportedMomenta) => outcome # "return"

\* a real number without square-root parts, as an entry of a get_kellm_proj result
Real(x) == <<<<x, 0>>, <<0, 0>>, <<0, 0>>>>

\* the call of C7: zero total momentum, nvec_arr = [(0,0,0)], ellm_set = [[0,0]], irrep
\* A1PLUS, row 0
C7_Scenario ==
  /\ op = "get_kellm_proj"
  /\ arg.nP = <<0, 0, 0>>
  /\ arg.nvec_arr = <<<<0, 0, 0>>>>
  /\ arg.ellm_set = <<<<0, 0>>>>
  /\ arg.irrep = "A1PLUS"
  /\ arg.irrep_row = 0

\* C7 as stated: in the scenario get_kellm_proj returns the 1 x 1 matrix [1.0].
C7_UnitProjector ==
  C7_Scenario => (outcome = "return" /\ result = <<<<Real(1)>>>>)

\* C7, amended: in the scenario get_kellm_proj returns the 1 x 1 matrix [48.0], the sum
\* over the 48 elements of OhP without a division by the group order.
C7_GroupOrderProjector ==
  C7_Scenario => (outcome = "return" /\ result = <<<<Real(Len(OhP))>>>>)

C7_Witness ==
  C7_Scenario /\ outcome = "return" /\ Len(result) = 1

\* the call of C8: zero total momentum, two identical spin-0 particles, the pair
\* (1,0,0), (-1,0,0) listed in both orders, irrep A1PLUS or A2PLUS
C8_Scenario ==
  /\ op = "get_proj_nonint_two_particles"
  /\ arg.nP = <<0, 0, 0>>
  /\ arg.particles_are_identical
  /\ arg.first_spin2 = 0
  /\ arg.second_spin2 = 0
  /\ arg.nvecset_batched = <<<<<<1, 0, 0>>, <<-1, 0, 0>>>>, <<<<-1, 0, 0>>, <<1, 0, 0>>>>>>
  /\ arg.irrep \in {"A1PLUS", "A2PLUS"}
  /\ arg.irow = 0

\* C8 as stated: in the scenario the projector path completes; for A1PLUS the projector
\* has one independent column with both components equal, for A2PLUS it has none.
C8_PairProjectorCompletes ==
  C8_Scenario =>
    /\ outcome = "return"
    /\ Len(result) = 2
    /\ arg.irrep = "A1PLUS" =>
         (result[1] = result[2] /\ result[1][1] = result[1][2] /\ result[1][1] # 0)
    /\ arg.irrep = "A2PLUS" => result = <<<<0, 0>>, <<0, 0>>>>

\* C8, amended: in the scenario the projector path does not complete: the builder of
\* the induced representation finds the rotated pair at one position and its swap at
\* the other, and its assertion of a single position fails, for A1PLUS and A2PLUS
\* alike; no projector and no basis is produced.
C8_PairProjectorAsserts ==
  C8_Scenario => (outcome = "AssertionError" /\ result = <<>>)

C8_Witness ==
  /\ C8_Scenario
  /\ arg.irrep = "A2PLUS"
  /\ outcome = "AssertionError"
  /\ Cardinality(Range(TwoParticleLoc(arg.nvecset_batched, Identity3, TRUE, 1))) = 2

(***************************************************************************)
(* The shell builders: normalisation of every projector of a shell         *)
(*                                                                         *)
(* np.linalg.eig is numerical code outside the repository.  The magnitudes *)
(* it yields for the projector of each (irrep, irow) pair, rounded by      *)
(* np.round(np.abs(eigvals), 10), are part of the call's input: qcis is    *)
(* <<>> for None, and otherwise <<q>> with q.nP the total momentum,        *)
(* q.eigvalsround the rounded magnitudes of every (irrep, irow) pair in    *)
(* turn, counted in units of 1.0e-10, and q.slack telling on which side of *)
(* 1.0e-10 the floating difference of two magnitudes one unit apart falls. *)
(***************************************************************************)
\* 1.0e-10 in units of 1.0e-10
EigenTolerance == 1

\* the largest magnitude and the longest list of magnitudes
MaxEig == 4

MaxDim == 2

Abs(x) == IF x < 0 THEN -x ELSE x

\* np.abs(example_eigval-eigval) < 1.0e-10
WithinTolerance(example_eigval, eigval, slack) ==
  \/ Abs(example_eigval - eigval) < EigenTolerance
  \/ Abs(example_eigval - eigval) = EigenTolerance /\ slack

\* the loop over eigvalsround with its assertion commented out
RECURSIVE EigenLoop_Unchecked(_, _, _, _, _)
EigenLoop_Unchecked(eigvalsround, i, example_eigval, asserts, slack) ==
  IF i > Len(eigvalsround) THEN [outcome |-> "return", value |-> example_eigval]
  ELSE IF eigvalsround[i] > EigenTolerance /\ example_eigval = 0
  THEN EigenLoop_Unchecked(eigvalsround, i + 1, eigvalsround[i], asserts, slack)
  ELSE EigenLoop_Unchecked(eigvalsround, i + 1, example_eigval, asserts, slack)

\* the loop over eigvalsround from position i on: the first magnitude above 1.0e-10
\* becomes example_eigval, every later one is compared with it where the builder
\* asserts; the value is example_eigval, 0 if no magnitude is above 1.0e-10
RECURSIVE EigenLoop(_, _, _, _, _)
EigenLoop(eigvalsround, i, example_eigval, asserts, slack) ==
  IF i > Len(eigvalsround) THEN [outcome |-> "return", value |-> example_eigval]
  ELSE IF eigvalsround[i] > EigenTolerance
  THEN IF example_eigval = 0
       THEN EigenLoop(eigvalsround, i + 1, eigvalsround[i], asserts, slack)
       ELSE IF asserts /\ ~WithinTolerance(example_eigval, eigvalsround[i], slack)
       THEN [outcome |-> "AssertionError", value |-> 0]
       ELSE EigenLoop(eigvalsround, i + 1, example_eigval, asserts, slack)
  ELSE EigenLoop(eigvalsround, i + 1, example_eigval, asserts, slack)

\* the loops over irrep_set and irow from pair k on; divisors holds, for every pair
\* done, the example_eigval its projector was divided by (0: not divided)
RECURSIVE PairsLoop(_, _, _, _)
PairsLoop(q, k, divisors, asserts) ==
  IF k > Len(q.eigvalsround) THEN [outcome |-> "return", value |-> divisors]
  ELSE LET r == EigenLoop(q.eigvalsround[k], 1, 0, asserts, q.slack)
       IN  IF r.outcome # "return" THEN [outcome |-> r.outcome, value |-> <<>>]
           ELSE PairsLoop(q, k + 1, Append(divisors, r.value), asserts)

\* the part the three shell builders share; rejected is the error numpy raises when it
\* is handed the exception object a projector builder returns for a momentum it does
\* not support
ShellBuilder(qcis, asserts, rejected) ==
  IF qcis = <<>> THEN [outcome |-> "ValueError", value |-> <<>>]
  ELSE IF Dot(qcis[1].nP, qcis[1].nP) \notin {0, 1, 2}
  THEN [outcome |-> "ValueError", value |-> <<>>]
  ELSE IF group_str(qcis[1].nP) = "unsupported" /\ Len(qcis[1].eigvalsround) > 0
  THEN [outcome |-> rejected, value |-> <<>>]
  ELSE PairsLoop(qcis[1], 1, <<>>, asserts)

get_proj_nonint_three_pions_shell(qcis) == ShellBuilder(qcis, TRUE, "LinAlgError")

get_proj_nonint_three_spinning_shell(qcis) == ShellBuilder(qcis, TRUE, "LinAlgError")

\* the assertion of this builder is commented out; np.round meets the projector first
get_proj_nonint_two_particles_shell(qcis) == ShellBuilder(qcis, FALSE, "TypeError")

\* lists of rounded magnitudes, and the lists of one or two of them
EigenvalueLists == UNION {[1..n -> 0..MaxEig] : n \in 1..MaxDim}

\* qcis.nP: the three supported momenta, one more of squared length 1, one of squared
\* length 3
ShellMomenta == SupportedMomenta \cup {<<0, 1, 0>>, <<1, 1, 1>>}

ShellQcis ==
  {<<>>} \cup
  {<<[nP |-> nP, eigvalsround |-> e, slack |-> s]>> :
     nP \in ShellMomenta,
     e \in {<<x>> : x \in EigenvalueLists}
             \cup {<<x, y>> : x \in EigenvalueLists, y \in EigenvalueLists},
     s \in BOOLEAN}

GetProjNonintThreePionsShell ==
  Fresh /\ \E qcis \in ShellQcis :
    LET r == get_proj_nonint_three_pions_shell(qcis)
    IN  /\ op' = "get_proj_nonint_three_pions_shell"
        /\ arg' = [qcis |-> qcis]
        /\ outcome' = r.outcome
        /\ result' = r.value

GetProjNonintThreeSpinningShell ==
  Fresh /\ \E qcis \in ShellQcis :
    LET r == get_proj_nonint_three_spinning_shell(qcis)
    IN  /\ op' = "get_proj_nonint_three_spinning_shell"
        /\ arg' = [qcis |-> qcis]
        /\ outcome' = r.outcome
        /\ result' = r.value

GetProjNonintTwoParticlesShell ==
  Fresh /\ \E qcis \in ShellQcis :
    LET r == get_proj_nonint_two_particles_shell(qcis)
    IN  /\ op' = "get_proj_nonint_two_particles_shell"
        /\ arg' = [qcis |-> qcis]
        /\ outcome' = r.outcome
        /\ result' = r.value

NextShell ==
  \/ GetProjNonintThreePionsShell
  \/ GetProjNonintThreeSpinningShell
  \/ GetProjNonintTwoParticlesShell

SpecShell == Init /\ [][NextShell]_vars

(***************************************************************************)
(* Properties of the shell builders                                        *)
(***************************************************************************)
ShellBuilders ==
  {"get_proj_nonint_three_pions_shell", "get_proj_nonint_three_spinning_shell",
   "get_proj_nonint_two_particles_shell"}

\* the last call is a shell builder that got as far as the eigenvalues of its projectors
NormalisationReached ==
  /\ op \in ShellBuilders
  /\ arg.qcis # <<>>
  /\ arg.qcis[1].nP \in SupportedMomenta

\* C10 as stated: in the three shell builders, if the projector of some pair has two
\* nonzero rounded eigenvalue magnitudes that differ by 1e-10 or more, the call fails
\* and returns no result.
C10_UnequalEigenvaluesFatal ==
  (/\ NormalisationReached
   /\ \E k \in 1..Len(arg.qcis[1].eigvalsround) :
        \E i, j \in 1..Len(arg.qcis[1].eigvalsround[k]) :
          /\ arg.qcis[1].eigvalsround[k][i] > 0
          /\ arg.qcis[1].eigvalsround[k][j] > 0
          /\ Abs(arg.qcis[1].eigvalsround[k][i] - arg.qcis[1].eigvalsround[k][j])
               >= EigenTolerance)
    => outcome # "return"

\* the first magnitude above 1.0e-10 of a list, 0 if there is none
FirstAbove(e) ==
  IF \E i \in 1..Len(e) : e[i] > EigenTolerance
  THEN e[CHOOSE i \in 1..Len(e) :
           e[i] > EigenTolerance /\ \A h \in 1..(i - 1) : e[h] <= EigenTolerance]
  ELSE 0

\* some magnitude above 1.0e-10 is two units or more away from the first such magnitude
FarFromFirst(e) ==
  \E i \in 1..Len(e) : e[i] > EigenTolerance /\ Abs(e[i] - FirstAbove(e)) >= 2 * EigenTolerance

\* C10, amended: in the three-pion and the three-spinning shell builder, if for some
\* pair a rounded magnitude above 1e-10 is 2e-10 or more away from the first rounded
\* magnitude above 1e-10, the call fails with an assertion error and returns nothing;
\* the two-particle shell builder makes no such check: it divides every projector by
\* its first rounded magnitude above 1e-10 and goes on.
C10_UnequalEigenvaluesFatalForThree ==
  NormalisationReached =>
    IF op = "get_proj_nonint_two_particles_shell"
    THEN /\ outcome = "return"
         /\ result = [k \in 1..Len(arg.qcis[1].eigvalsround) |->
                        FirstAbove(arg.qcis[1].eigvalsround[k])]
    ELSE (\E k \in 1..Len(arg.qcis[1].eigvalsround) :
            FarFromFirst(arg.qcis[1].eigvalsround[k]))
           => (outcome = "AssertionError" /\ result = <<>>)

\* the three-pion builder passes its first pair and fails on the second
C10_Witness ==
  /\ NormalisationReached
  /\ op = "get_proj_nonint_three_pions_shell"
  /\ Len(arg.qcis[1].eigvalsround) = 2
  /\ ~FarFromFirst(arg.qcis[1].eigvalsround[1])
  /\ FarFromFirst(arg.qcis[1].eigvalsround[2])
  /\ outcome = "AssertionError"

(***************************************************************************)
(* The reporters                                                           *)
(*                                                                         *)
(* A reporter reads of every cleaned projector only the number of its      *)
(* columns (and _get_summary its dtype).  The cleaned projectors come out  *)
(* of np.linalg.eig and np.linalg.qr, numerical code outside the           *)
(* repository, so the dictionaries the shell builders hand back are part   *)
(* of the call's input: a dictionary is the sequence of its entries in     *)
(* insertion order, an entry holds its key (irrep, row) and the number of  *)
(* columns of its projector.  qcis is <<>> for None and <<q>> otherwise.   *)
(***************************************************************************)
\* the largest number of identical-particle states of a shell
MaxStates == 3

\* irrep[0], the first letter of an irrep label
Initial(irrep) ==
  CASE irrep \in {"EPLUS", "EMINUS", "E2"} -> "E"
    [] irrep \in {"T1PLUS", "T2PLUS", "T1MINUS", "T2MINUS"} -> "T"
    [] irrep \in {"G1PLUS", "G2PLUS", "G1MINUS", "G2MINUS"} -> "G"
    [] irrep \in {"HPLUS", "HMINUS"} -> "H"
    [] OTHER -> "A"

\* dim as the reporters work it out from the first letter; only the three-spinning
\* reporter knows G and H
LetterDim(irrep, spinning) ==
  CASE Initial(irrep) = "E" -> 2
    [] Initial(irrep) = "T" -> 3
    [] Initial(irrep) = "G" /\ spinning -> 2
    [] Initial(irrep) = "H" /\ spinning -> 4
    [] OTHER -> 1

\* only the entries of row 0 are added up
RECURSIVE EntriesLoop_RowZeroOnly(_, _, _, _, _, _)
EntriesLoop_RowZeroOnly(entries, k, shell_total, row_zero_value, two_particles, spinning) ==
  IF k > Len(entries) THEN <<shell_total, row_zero_value>>
  ELSE LET n == entries[k].cols \div LetterDim(entries[k].irrep, spinning)
       IN  IF entries[k].row = 0
           THEN EntriesLoop_RowZeroOnly(entries, k + 1, shell_total + n, n,
                                        two_particles, spinning)
           ELSE EntriesLoop_RowZeroOnly(entries, k + 1, shell_total, row_zero_value,
                                        two_particles, spinning)

\* "for dict_ent in non_proj_dict" from entry k on: the pair <<shell_total,
\* row_zero_value>> after the loop.  The two-particle reporter replaces n_embedded by
\* row_zero_value before it adds.
RECURSIVE EntriesLoop(_, _, _, _, _, _)
EntriesLoop(entries, k, shell_total, row_zero_value, two_particles, spinning) ==
  IF k > Len(entries) THEN <<shell_total, row_zero_value>>
  ELSE LET n == entries[k].cols \div LetterDim(entries[k].irrep, spinning)
           rzv == IF entries[k].row = 0 THEN n ELSE row_zero_value
           n_embedded == IF two_particles THEN rzv ELSE n
       IN  EntriesLoop(entries, k + 1, shell_total + n_embedded, rzv,
                       two_particles, spinning)

\* "for isovalue in isoset" from the dictionary at position d on
RECURSIVE IsoLoop(_, _, _, _, _, _)
IsoLoop(dicts, d, shell_total, row_zero_value, two_particles, spinning) ==
  IF d > Len(dicts) THEN <<shell_total, row_zero_value>>
  ELSE LET after == EntriesLoop(dicts[d], 1, shell_total, row_zero_value,
                                two_particles, spinning)
       IN  IsoLoop(dicts, d + 1, after[1], after[2], two_particles, spinning)

\* "for shell_index in range(nshells)" from shell s on; nstates[s] is the state count
\* of shell s, totals the shell totals of the shells done
RECURSIVE ShellsLoop(_, _, _, _, _, _, _)
ShellsLoop(shells, nstates, s, row_zero_value, totals, two_particles, spinning) ==
  IF s > Len(shells) THEN [outcome |-> "return", value |-> [shell_totals |-> totals]]
  ELSE LET after == IsoLoop(shells[s].dicts, 1, 0, row_zero_value, two_particles,
                            spinning)
       IN  IF after[1] # nstates[s]
           THEN [outcome |-> "AssertionError", value |-> <<>>]
           ELSE ShellsLoop(shells, nstates, s + 1, after[2], Append(totals, after[1]),
                           two_particles, spinning)

\* int((2.0*first_spin+1.0)*(2.0*second_spin+1.0)...), the spins given as twice their
\* value
RECURSIVE total_spin_dimension(_)
total_spin_dimension(spins2) ==
  IF spins2 = <<>> THEN 1 ELSE (Head(spins2) + 1) * total_spin_dimension(Tail(spins2))

\* nident+nrest for a channel of definite isospin, nident otherwise
ThreeParticleStates(q, spin_dimension) ==
  [s \in 1..Len(q.shells) |->
     IF q.definite_iso
     THEN q.shells[s].nident * spin_dimension + q.shells[s].nrest * spin_dimension
     ELSE q.shells[s].nident * spin_dimension]

\* len(nvecset_batched_cindex[shell_index])*total_spin_dimension, the list being the
\* identical-particle one when the two flavors agree
TwoParticleStates(q) ==
  [s \in 1..Len(q.shells) |->
     (IF q.flavors_identical THEN q.shells[s].nident ELSE q.shells[s].nrest)
       * total_spin_dimension(q.spins2)]

get_proj_nonint_three_pions_dict(qcis) ==
  IF qcis = <<>> THEN [outcome |-> "ValueError", value |-> <<>>]
  ELSE IF ~qcis[1].flavors_identical THEN [outcome |-> "ValueError", value |-> <<>>]
  ELSE ShellsLoop(qcis[1].shells, ThreeParticleStates(qcis[1], 1), 1, 0, <<>>,
                  FALSE, FALSE)

get_proj_nonint_three_spinning_dict(qcis) ==
  IF qcis = <<>> THEN [outcome |-> "ValueError", value |-> <<>>]
  ELSE IF ~qcis[1].flavors_identical THEN [outcome |-> "ValueError", value |-> <<>>]
  ELSE ShellsLoop(qcis[1].shells,
                  ThreeParticleStates(qcis[1], total_spin_dimension(qcis[1].spins2)),
                  1, 0, <<>>, FALSE, TRUE)

\* isospin_channel chooses the isovalue the one dictionary of a shell is filed under
get_proj_nonint_two_particles_dict(qcis, isospin_channel) ==
  IF qcis = <<>> THEN [outcome |-> "ValueError", value |-> <<>>]
  ELSE ShellsLoop(qcis[1].shells, TwoParticleStates(qcis[1]), 1, 0, <<>>, TRUE, FALSE)

\* the entries of a dictionary under the key (irrep, row): none or one
Under(proj_dict, irrep, row) ==
  SelectSeq(proj_dict, LAMBDA e : e.irrep = irrep /\ e.row = row)

\* the while loop of _get_summary from irrep_row downwards: the lowest row whose
\* projector is real, best_irrep_row if there is none
RECURSIVE BestRowLoop(_, _, _, _)
BestRowLoop(proj_dict, irrep, irrep_row, best_irrep_row) ==
  IF irrep_row < 0 THEN best_irrep_row
  ELSE BestRowLoop(proj_dict, irrep, irrep_row - 1,
                   IF Under(proj_dict, irrep, irrep_row)[1].real
                   THEN irrep_row ELSE best_irrep_row)

\* the second loop of _get_summary from position k of best_irreps on
RECURSIVE GrandTotalLoop(_, _, _, _, _)
GrandTotalLoop(proj_dict, group, best_irreps, k, grand_total) ==
  IF k > Len(best_irreps) THEN grand_total
  ELSE LET n_times == Under(proj_dict, best_irreps[k][1], best_irreps[k][2])[1].cols
           irrep_dim == Len(bTdict(group \o "_" \o best_irreps[k][1]))
       IN  GrandTotalLoop(proj_dict, group, best_irreps, k + 1,
                          grand_total + n_times * irrep_dim)

\* _get_summary(proj_dict, group_str, qcis, total_size); qcis is not read
get_summary(proj_dict, group, total_size) ==
  LET contributing == SelectSeq(proj_dict, LAMBDA e : e.row = 0)
      contributing_irreps == [k \in 1..Len(contributing) |-> contributing[k].irrep]
      known(k) == (group \o "_" \o contributing_irreps[k]) \in BTKeys
      irrep_dim(k) == Len(bTdict(group \o "_" \o contributing_irreps[k]))
      complete(k) == \A r \in 0..(irrep_dim(k) - 1) :
                       Under(proj_dict, contributing_irreps[k], r) # <<>>
      best_irreps == [k \in 1..Len(contributing) |->
                        <<contributing_irreps[k],
                          BestRowLoop(proj_dict, contributing_irreps[k],
                                      irrep_dim(k) - 1, 0)>>]
      grand_total == GrandTotalLoop(proj_dict, group, best_irreps, 1, 0)
  IN  IF \E k \in 1..Len(contributing) : ~known(k) \/ ~complete(k)
      THEN [outcome |-> "KeyError", value |-> <<>>]
      ELSE [outcome |-> "return",
            value |-> [best_irreps |-> best_irreps,
                       grand_total |-> grand_total,
                       verdict |-> IF grand_total = total_size
                                   THEN "total matches size of kellm space"
                                   ELSE "does not match size of kellm space, something went wrong"]]

(***************************************************************************)
(* Calls of the reporters                                                  *)
(***************************************************************************)
\* an entry if its projector has columns
EntryIf(irrep, row, cols) ==
  IF cols = 0 THEN <<>> ELSE <<[irrep |-> irrep, row |-> row, cols |-> cols]>>

\* dictionaries of a shell builder: A1PLUS once or not at all, the two rows of EPLUS
\* with two or four columns or missing
ReportDicts ==
  {EntryIf("A1PLUS", 0, a) \o EntryIf("EPLUS", 0, e0) \o EntryIf("EPLUS", 1, e1) :
     a \in {0, 1}, e0 \in {0, 2, 4}, e1 \in {0, 2}}

\* the dictionaries of the four isovalues are drawn from a shorter list
IsoDicts ==
  {<<>>, EntryIf("A1PLUS", 0, 1), EntryIf("EPLUS", 0, 2) \o EntryIf("EPLUS", 1, 2)}

\* a shell: the lengths of its identical and non-identical lists, and the dictionary
\* of each isovalue
ShellsOf(dicts) ==
  {[nident |-> a, nrest |-> b, dicts |-> ds] : a \in 1..MaxStates, b \in {0, 1}, ds \in dicts}

\* one or two shells with one isovalue (the second with a dictionary of the shorter
\* list), one shell with four
ShellLists(definite_iso) ==
  IF definite_iso
  THEN {<<s>> : s \in ShellsOf({<<d0, d1, d2, d3>> : d0 \in IsoDicts, d1 \in IsoDicts,
                                                      d2 \in IsoDicts, d3 \in IsoDicts})}
  ELSE {<<s>> : s \in ShellsOf({<<d>> : d \in ReportDicts})}
         \cup {<<s, t>> : s \in ShellsOf({<<d>> : d \in ReportDicts}),
                          t \in ShellsOf({<<d>> : d \in IsoDicts})}

\* twice the spins of the particles: all spin 0, or the first of spin 1
SpinLists(n) == {[k \in 1..n |-> 0], [k \in 1..n |-> IF k = 1 THEN 2 ELSE 0]}

ThreeParticleQcis(spins) ==
  {<<>>} \cup
  UNION {{<<[flavors_identical |-> f, definite_iso |-> iso, spins2 |-> s2,
             shells |-> sh]>> :
            f \in BOOLEAN, s2 \in spins, sh \in ShellLists(iso)} : iso \in BOOLEAN}

TwoParticleQcis ==
  {<<>>} \cup
  {<<[flavors_identical |-> f, spins2 |-> s2, shells |-> sh]>> :
     f \in BOOLEAN, s2 \in SpinLists(2), sh \in ShellLists(FALSE)}

\* proj_dict of _get_summary: an entry also tells whether its projector is real
SummaryEntries(irrep, row) ==
  {<<>>} \cup {<<[irrep |-> irrep, row |-> row, cols |-> c, real |-> re]>> :
                 c \in {1, 2}, re \in BOOLEAN}

SummaryDicts ==
  {a \o e0 \o e1 : a \in SummaryEntries("A1PLUS", 0), e0 \in SummaryEntries("EPLUS", 0),
                   e1 \in SummaryEntries("EPLUS", 1)}

GetProjNonintThreePionsDict ==
  Fresh /\ \E qcis \in ThreeParticleQcis({<<0, 0, 0>>}) :
    LET r == get_proj_nonint_three_pions_dict(qcis)
    IN  /\ op' = "get_proj_nonint_three_pions_dict"
        /\ arg' = [qcis |-> qcis]
        /\ outcome' = r.outcome
        /\ result' = r.value

GetProjNonintThreeSpinningDict ==
  Fresh /\ \E qcis \in ThreeParticleQcis(SpinLists(3)) :
    LET r == get_proj_nonint_three_spinning_dict(qcis)
    IN  /\ op' = "get_proj_nonint_three_spinning_dict"
        /\ arg' = [qcis |-> qcis]
        /\ outcome' = r.outcome
        /\ result' = r.value

GetProjNonintTwoParticlesDict ==
  Fresh /\ \E qcis \in TwoParticleQcis, isospin_channel \in BOOLEAN :
    LET r == get_proj_nonint_two_particles_dict(qcis, isospin_channel)
    IN  /\ op' = "get_proj_nonint_two_particles_dict"
        /\ arg' = [qcis |-> qcis, isospin_channel |-> isospin_channel]
        /\ outcome' = r.outcome
        /\ result' = r.value

GetSummary ==
  Fresh /\ \E proj_dict \in SummaryDicts, group \in GroupNames,
              total_size \in 0..MaxStates :
    LET r == get_summary(proj_dict, group, total_size)
    IN  /\ op' = "_get_summary"
        /\ arg' = [proj_dict |-> proj_dict, group_str |-> group,
                   total_size |-> total_size]
        /\ outcome' = r.outcome
        /\ result' = r.value

NextReport ==
  \/ GetProjNonintThreePionsDict
  \/ GetProjNonintThreeSpinningDict
  \/ GetProjNonintTwoParticlesDict
  \/ GetSummary

SpecReport == Init /\ [][NextReport]_vars

(***************************************************************************)
(* C9: the completeness checks of the reporters                            *)
(***************************************************************************)
DictReporters ==
  {"get_proj_nonint_three_pions_dict", "get_proj_nonint_three_spinning_dict",
   "get_proj_nonint_two_particles_dict"}

RECURSIVE Flatten(_)
Flatten(seqs) == IF seqs = <<>> THEN <<>> ELSE Head(seqs) \o Flatten(Tail(seqs))

\* the entries of the dictionaries of shells 1..s in the order the reporter meets them
EntriesThrough(shells, s) ==
  Flatten([t \in 1..s |-> Flatten(shells[t].dicts)])

\* how often the irrep of an entry is embedded
Embedded(e) == e.cols \div LetterDim(e.irrep, op = "get_proj_nonint_three_spinning_dict")

\* what the reporter adds for entry k of all: the two-particle reporter the count of
\* the last row 0 it has met (0 before the first), the others the count of the entry
Counted(all, k) ==
  IF op = "get_proj_nonint_two_particles_dict"
  THEN LET zeros == {j \in 1..k : all[j].row = 0}
       IN  IF zeros = {} THEN 0
           ELSE Embedded(all[CHOOSE j \in zeros : \A i \in zeros : i <= j])
  ELSE Embedded(all[k])

\* the total of shell s
TotalOf(shells, s) ==
  LET all == EntriesThrough(shells, s)
      first == Len(EntriesThrough(shells, s - 1)) + 1
  IN  SumOver([k \in first..Len(all) |-> Counted(all, k)], first..Len(all))

\* the state count of shell s
StatesOf(q, s) ==
  LET spin_dimension == IF op = "get_proj_nonint_three_pions_dict" THEN 1
                        ELSE total_spin_dimension(q.spins2)
  IN  IF op = "get_proj_nonint_two_particles_dict"
      THEN (IF q.flavors_identical THEN q.shells[s].nident ELSE q.shells[s].nrest)
             * spin_dimension
      ELSE IF q.definite_iso
      THEN (q.shells[s].nident + q.shells[s].nrest) * spin_dimension
      ELSE q.shells[s].nident * spin_dimension

\* shell s of the call in arg does not add up
Mismatch(s) ==
  TotalOf(arg.qcis[1].shells, s) # StatesOf(arg.qcis[1], s)

MismatchText == "does not match size of kellm space, something went wrong"

\* C9 as stated: no reporter, _get_summary included, returns normally when the
\* total it has added up differs from the state count
C9_EveryMismatchIsFatal ==
  /\ op \in DictReporters /\ outcome = "return"
       => \A s \in 1..Len(arg.qcis[1].shells) : ~Mismatch(s)
  /\ op = "_get_summary" /\ outcome = "return"
       => result.grand_total = arg.total_size

\* C9: the three dictionary reporters never return normally when the total of some
\* shell differs from the state count of that shell; _get_summary never fails on a
\* mismatch: it returns normally and its summary says so exactly when its grand
\* total differs from total_size
C9_DictReportersFatalSummaryReports ==
  /\ op \in DictReporters /\ arg.qcis # <<>>
       /\ (\E s \in 1..Len(arg.qcis[1].shells) : Mismatch(s))
       => outcome \in {"AssertionError", "ValueError"}
  /\ op \in DictReporters /\ outcome = "return"
       => \A s \in 1..Len(arg.qcis[1].shells) :
            result.shell_totals[s] = StatesOf(arg.qcis[1], s)
  /\ op = "_get_summary" => outcome \in {"return", "KeyError"}
  /\ op = "_get_summary" /\ outcome = "return"
       => (result.verdict = MismatchText <=> result.grand_total # arg.total_size)

\* the two-particle reporter has accepted a first shell and fails on the second, whose
\* total differs from its state count
C9_Witness ==
  /\ op = "get_proj_nonint_two_particles_dict"
  /\ outcome = "AssertionError"
  /\ Len(arg.qcis[1].shells) = 2
  /\ ~Mismatch(1)
  /\ Mismatch(2)
  /\ StatesOf(arg.qcis[1], 1) > 0

(***************************************************************************)
(* The double cover of OhP built by Groups.__init__                        *)
(*                                                                         *)
(* _get_double_cover_group works in double precision.  A real number of a  *)
(* spinor lift is held as <<a, b, u>>: it stands for (a + b*sqrt(2))/2,    *)
(* and u is the distance of the double from that value in units of 1e-17   *)
(* (rounded).  Every number of a lift is 0 or at least 1/2 in magnitude    *)
(* before rounding, and |u| stays below 100, so a number is below          *)
(* EPSILON10 = 1e-10 in magnitude exactly when a = b = 0.  A complex       *)
(* number is <<re, im>>.                                                   *)
(*                                                                         *)
(* np.linalg.eig is numerical code outside the repository.  It returns the *)
(* rotation axis of an element as a unit vector whose sign it is free to   *)
(* choose, so the orientation rule of eig is an input of the construction. *)
(* The axis is held as the integer vector v it is parallel to; the         *)
(* rounding of v/|v| is not modelled, a product sin*v[k]/|v| carries the   *)
(* rounding of its trigonometric factor.                                   *)
(***************************************************************************)
Zero == <<0, 0, 0>>

\* k*x for an integer k
Times(k, x) == <<k * x[1], k * x[2], k * x[3]>>

Plus(x, y) == <<x[1] + y[1], x[2] + y[2], x[3] + y[3]>>

\* np.abs(x) < EPSILON10 for a real x
Tiny(x) == x[1] = 0 /\ x[2] = 0

\* the chopping loops over the entries of U and Uplustwopi: an imaginary part below
\* EPSILON10 is dropped, then an entry below EPSILON10 is set to 0
Chop(z) ==
  LET w == IF Tiny(z[2]) THEN <<z[1], Zero>> ELSE z
  IN  IF Tiny(w[1]) /\ Tiny(w[2]) THEN <<Zero, Zero>> ELSE w

\* the orientation rules of eig: "recorded" gives the threefold axes an odd number of
\* negative components and every other axis a positive first nonzero component,
\* "positive" gives every axis a positive first nonzero component, "negative" is its
\* opposite
EigOrientations == {"recorded", "positive", "negative"}

NormSq(v) == Dot(v, v)

FirstPositive(v) ==
  \/ v[1] > 0
  \/ v[1] = 0 /\ v[2] > 0
  \/ v[1] = 0 /\ v[2] = 0 /\ v[3] > 0

\* every rule orients as "positive" does
Oriented_FirstPositive(v, eig) == FirstPositive(v)

Oriented(v, eig) ==
  CASE eig = "positive" -> FirstPositive(v)
    [] eig = "negative" -> ~FirstPositive(v)
    [] OTHER -> IF NormSq(v) = 3 THEN v[1] * v[2] * v[3] < 0 ELSE FirstPositive(v)

\* "if np.linalg.det(group_element) < 0.: group_element = -group_element"
ProperPart(g) == IF Det3(g) < 0 THEN Scale(g, -1) ELSE g

\* real_counts[i]: a rotation by 0 or pi is a symmetric matrix and has three real
\* eigenvalues, any other rotation has one
real_count(R) == IF R = Transpose(R) THEN 3 ELSE 1

\* the eigenvector of eigenvalue 1 that eig returns for the rotation R: the first
\* column of the unit matrix for the identity, else the axis in its orientation
Eigenvector(R, eig) ==
  IF R = Identity3 THEN <<1, 0, 0>>
  ELSE CHOOSE v \in {<<x, y, z>> : x \in -1..1, y \in -1..1, z \in -1..1} :
         /\ v # <<0, 0, 0>>
         /\ MatVec(R, v) = v
         /\ Oriented(v, eig)

Cross(a, b) ==
  <<a[2]*b[3] - a[3]*b[2], a[3]*b[1] - a[1]*b[3], a[1]*b[2] - a[2]*b[1]>>

\* theta_values[i], and its replacement when real_counter == 3.  normal is the normal
\* vector before its division by its length; costheta is compared through
\* normal@R@normal and normal@normal.  costheta = 1/2 does not occur in OhP.
Theta(R, v) ==
  LET normal == IF v[1] = 0 /\ v[2] = 0 THEN <<1, 0, 0>> ELSE Cross(v, <<0, 0, 1>>)
      turned == MatVec(R, normal)
      cos == Dot(normal, turned)
      len == Dot(normal, normal)
      sintheta == Dot(Cross(normal, turned), v)
  IN  IF real_count(R) = 3 THEN (IF R = Identity3 THEN "0" ELSE "pi")
      ELSE CASE cos = -len -> "pi"
             [] 2 * cos = -len -> IF sintheta > 0 THEN "2pi/3" ELSE "4pi/3"
             [] cos = 0 -> IF sintheta > 0 THEN "pi/2" ELSE "3pi/2"
             [] cos = len -> "0"
             [] OTHER -> "nan"

\* np.cos(theta/2) on sheet 0 and np.cos(theta/2+np.pi) on sheet 1, as IEEE double
\* arithmetic gives them
CosHalf(theta, sheet) ==
  IF sheet = 0
  THEN CASE theta = "0" -> <<2, 0, 0>>
         [] theta = "pi/2" -> <<0, 1, 5>>
         [] theta = "2pi/3" -> <<1, 0, 11>>
         [] theta = "pi" -> <<0, 0, 6>>
         [] theta = "4pi/3" -> <<-1, 0, 22>>
         [] theta = "3pi/2" -> <<0, -1, 6>>
  ELSE CASE theta = "0" -> <<-2, 0, 0>>
         [] theta = "pi/2" -> <<0, -1, -16>>
         [] theta = "2pi/3" -> <<-1, 0, -44>>
         [] theta = "pi" -> <<0, 0, -18>>
         [] theta = "4pi/3" -> <<1, 0, -67>>
         [] theta = "3pi/2" -> <<0, 1, -17>>

\* np.sin(theta/2) and np.sin(theta/2+np.pi) divided by the length of v: the axes of
\* the quarter turns have length 1, those of the threefold turns length sqrt(3), those
\* of the half turns length 1 or sqrt(2)
SinHalfOverNorm(theta, normsq, sheet) ==
  IF sheet = 0
  THEN CASE theta = "0" -> <<0, 0, 0>>
         [] theta = "pi/2" -> <<0, 1, -6>>
         [] theta = "2pi/3" -> <<1, 0, -5>>
         [] theta = "pi" -> IF normsq = 1 THEN <<2, 0, 0>> ELSE <<0, 1, 0>>
         [] theta = "4pi/3" -> <<1, 0, 6>>
         [] theta = "3pi/2" -> <<0, 1, 5>>
  ELSE CASE theta = "0" -> <<0, 0, 12>>
         [] theta = "pi/2" -> <<0, -1, 6>>
         [] theta = "2pi/3" -> <<-1, 0, 27>>
         [] theta = "pi" -> IF normsq = 1 THEN <<-2, 0, 0>> ELSE <<0, -1, 0>>
         [] theta = "4pi/3" -> <<-1, 0, -39>>
         [] theta = "3pi/2" -> <<0, -1, -16>>

\* both sheets built with theta/2
SpinorLift_OneSheet(R, v, sheet, factor) ==
  LET theta == Theta(R, v)
      c == Times(factor, CosHalf(theta, 0))
      s == [k \in 1..3 |->
              Times(factor * v[k], SinHalfOverNorm(theta, NormSq(v), 0))]
  IN  <<<<Chop(<<c, Times(-1, s[3])>>), Chop(<<Times(-1, s[2]), Times(-1, s[1])>>)>>,
        <<Chop(<<s[2], Times(-1, s[1])>>), Chop(<<c, s[3]>>)>>>>

\* U (sheet 0) and Uplustwopi (sheet 1) after the chopping loops:
\* parity_matrix@(cos*eye(2) - 1j*sin*sigma_dot_eigenvector), the parity matrix being
\* factor times the unit matrix
SpinorLift(R, v, sheet, factor) ==
  LET theta == Theta(R, v)
      c == Times(factor, CosHalf(theta, sheet))
      s == [k \in 1..3 |->
              Times(factor * v[k], SinHalfOverNorm(theta, NormSq(v), sheet))]
  IN  <<<<Chop(<<c, Times(-1, s[3])>>), Chop(<<Times(-1, s[2]), Times(-1, s[1])>>)>>,
        <<Chop(<<s[2], Times(-1, s[1])>>), Chop(<<c, s[3]>>)>>>>

\* the integer-spin element appended twice for OhP[i]: the proper part of the element,
\* replaced again by the element itself when parity == -1
IntspinElement(g, parity) == IF parity = -1 THEN g ELSE ProperPart(g)

\* _get_double_cover_group(parity): the lists OhP_double and OhP_double_intspin;
\* position p of a list is position p - 1 of the source
get_double_cover_group(parity, eig) ==
  LET element(p) == OhP[(p + 1) \div 2]
      sheet(p) == (p + 1) % 2
      factor(p) == IF parity = -1 THEN Det3(element(p)) ELSE 1
      lift(p) == LET R == ProperPart(element(p))
                 IN  SpinorLift(R, Eigenvector(R, eig), sheet(p), factor(p))
  IN  [OhP_double |-> Stored([p \in 1..(2 * Len(OhP)) |-> lift(p)]),
       OhP_double_intspin |->
         Stored([p \in 1..(2 * Len(OhP)) |-> IntspinElement(element(p), parity)])]

\* chardict[key] for the hard-coded spinor irreps: a character a + b*RTWO is held as
\* <<a, b>>, one character per element of the double cover; rows copies of one row
chardict_spinor(key) ==
  CASE key = "OhP_G2PLUS" ->
       [r \in 1..2 |->
       <<<<2, 0>>, <<-2, 0>>, <<0, 0>>, <<0, 0>>, <<0, 0>>, <<0, 0>>, <<0, 0>>, <<0, 0>>,
       <<0, 0>>, <<0, 0>>, <<0, 0>>, <<0, 0>>, <<0, 0>>, <<0, 0>>, <<1, 0>>,
       <<-1, 0>>, <<-1, 0>>, <<1, 0>>, <<-1, 0>>, <<1, 0>>, <<1, 0>>, <<-1, 0>>,
       <<-1, 0>>, <<1, 0>>, <<1, 0>>, <<-1, 0>>, <<1, 0>>, <<-1, 0>>, <<-1, 0>>,
       <<1, 0>>, <<0, -1>>, <<0, 1>>, <<0, 1>>, <<0, -1>>, <<0, -1>>, <<0, 1>>,
       <<0, 1>>, <<0, -1>>, <<0, 1>>, <<0, -1>>, <<0, -1>>, <<0, 1>>, <<0, 0>>,
       <<0, 0>>, <<0, 0>>, <<0, 0>>, <<0, 0>>, <<0, 0>>, <<2, 0>>, <<-2, 0>>,
       <<0, 0>>, <<0, 0>>, <<0, 0>>, <<0, 0>>, <<0, 0>>, <<0, 0>>, <<0, 0>>, <<0, 0>>,
       <<0, 0>>, <<0, 0>>, <<0, 0>>, <<0, 0>>, <<1, 0>>, <<-1, 0>>, <<-1, 0>>,
       <<1, 0>>, <<-1, 0>>, <<1, 0>>, <<1, 0>>, <<-1, 0>>, <<-1, 0>>, <<1, 0>>,
       <<1, 0>>, <<-1, 0>>, <<1, 0>>, <<-1, 0>>, <<-1, 0>>, <<1, 0>>, <<0, -1>>,
       <<0, 1>>, <<0, 1>>, <<0, -1>>, <<0, -1>>, <<0, 1>>, <<0, 1>>, <<0, -1>>,
       <<0, 1>>, <<0, -1>>, <<0, -1>>, <<0, 1>>, <<0, 0>>, <<0, 0>>, <<0, 0>>,
       <<0, 0>>, <<0, 0>>, <<0, 0>>>>]
    [] key = "OhP_G2MINUS" ->
       [r \in 1..2 |->
       <<<<2, 0>>, <<-2, 0>>, <<0, 0>>, <<0, 0>>, <<0, 0>>, <<0, 0>>, <<0, 0>>, <<0, 0>>,
       <<0, 0>>, <<0, 0>>, <<0, 0>>, <<0, 0>>, <<0, 0>>, <<0, 0>>, <<1, 0>>,
       <<-1, 0>>, <<-1, 0>>, <<1, 0>>, <<-1, 0>>, <<1, 0>>, <<1, 0>>, <<-1, 0>>,
       <<-1, 0>>, <<1, 0>>, <<1, 0>>, <<-1, 0>>, <<1, 0>>, <<-1, 0>>, <<-1, 0>>,
       <<1, 0>>, <<0, -1>>, <<0, 1>>, <<0, 1>>, <<0, -1>>, <<0, -1>>, <<0, 1>>,
       <<0, 1>>, <<0, -1>>, <<0, 1>>, <<0, -1>>, <<0, -1>>, <<0, 1>>, <<0, 0>>,
       <<0, 0>>, <<0, 0>>, <<0, 0>>, <<0, 0>>, <<0, 0>>, <<-2, 0>>, <<2, 0>>,
       <<0, 0>>, <<0, 0>>, <<0, 0>>, <<0, 0>>, <<0, 0>>, <<0, 0>>, <<0, 0>>, <<0, 0>>,
       <<0, 0>>, <<0, 0>>, <<0, 0>>, <<0, 0>>, <<-1, 0>>, <<1, 0>>, <<1, 0>>,
       <<-1, 0>>, <<1, 0>>, <<-1, 0>>, <<-1, 0>>, <<1, 0>>, <<1, 0>>, <<-1, 0>>,
       <<-1, 0>>, <<1, 0>>, <<-1, 0>>, <<1, 0>>, <<1, 0>>, <<-1, 0>>, <<0, 1>>,
       <<0, -1>>, <<0, -1>>, <<0, 1>>, <<0, 1>>, <<0, -1>>, <<0, -1>>, <<0, 1>>,
       <<0, -1>>, <<0, 1>>, <<0, 1>>, <<0, -1>>, <<0, 0>>, <<0, 0>>, <<0, 0>>,
       <<0, 0>>, <<0, 0>>, <<0, 0>>>>]
    [] key = "OhP_HPLUS" ->
       [r \in 1..4 |->
       <<<<4, 0>>, <<-4, 0>>, <<0, 0>>, <<0, 0>>, <<0, 0>>, <<0, 0>>, <<0, 0>>, <<0, 0>>,
       <<0, 0>>, <<0, 0>>, <<0, 0>>, <<0, 0>>, <<0, 0>>, <<0, 0>>, <<-1, 0>>,
       <<1, 0>>, <<1, 0>>, <<-1, 0>>, <<1, 0>>, <<-1, 0>>, <<-1, 0>>, <<1, 0>>,
       <<1, 0>>, <<-1, 0>>, <<-1, 0>>, <<1, 0>>, <<-1, 0>>, <<1, 0>>, <<1, 0>>,
       <<-1, 0>>, <<0, 0>>, <<0, 0>>, <<0, 0>>, <<0, 0>>, <<0, 0>>, <<0, 0>>,
       <<0, 0>>, <<0, 0>>, <<0, 0>>, <<0, 0>>, <<0, 0>>, <<0, 0>>, <<0, 0>>, <<0, 0>>,
       <<0, 0>>, <<0, 0>>, <<0, 0>>, <<0, 0>>, <<4, 0>>, <<-4, 0>>, <<0, 0>>,
       <<0, 0>>, <<0, 0>>, <<0, 0>>, <<0, 0>>, <<0, 0>>, <<0, 0>>, <<0, 0>>, <<0, 0>>,
       <<0, 0>>, <<0, 0>>, <<0, 0>>, <<-1, 0>>, <<1, 0>>, <<1, 0>>, <<-1, 0>>,
       <<1, 0>>, <<-1, 0>>, <<-1, 0>>, <<1, 0>>, <<1, 0>>, <<-1, 0>>, <<-1, 0>>,
       <<1, 0>>, <<-1, 0>>, <<1, 0>>, <<1, 0>>, <<-1, 0>>, <<0, 0>>, <<0, 0>>,
       <<0, 0>>, <<0, 0>>, <<0, 0>>, <<0, 0>>, <<0, 0>>, <<0, 0>>, <<0, 0>>, <<0, 0>>,
       <<0, 0>>, <<0, 0>>, <<0, 0>>, <<0, 0>>, <<0, 0>>, <<0, 0>>, <<0, 0>>,
       <<0, 0>>>>]
    [] key = "OhP_HMINUS" ->
       [r \in 1..4 |->
       <<<<4, 0>>, <<-4, 0>>, <<0, 0>>, <<0, 0>>, <<0, 0>>, <<0, 0>>, <<0, 0>>, <<0, 0>>,
       <<0, 0>>, <<0, 0>>, <<0, 0>>, <<0, 0>>, <<0, 0>>, <<0, 0>>, <<-1, 0>>,
       <<1, 0>>, <<1, 0>>, <<-1, 0>>, <<1, 0>>, <<-1, 0>>, <<-1, 0>>, <<1, 0>>,
       <<1, 0>>, <<-1, 0>>, <<-1, 0>>, <<1, 0>>, <<-1, 0>>, <<1, 0>>, <<1, 0>>,
       <<-1, 0>>, <<0, 0>>, <<0, 0>>, <<0, 0>>, <<0, 0>>, <<0, 0>>, <<0, 0>>,
       <<0, 0>>, <<0, 0>>, <<0, 0>>, <<0, 0>>, <<0, 0>>, <<0, 0>>, <<0, 0>>, <<0, 0>>,
       <<0, 0>>, <<0, 0>>, <<0, 0>>, <<0, 0>>, <<-4, 0>>, <<4, 0>>, <<0, 0>>,
       <<0, 0>>, <<0, 0>>, <<0, 0>>, <<0, 0>>, <<0, 0>>, <<0, 0>>, <<0, 0>>, <<0, 0>>,
       <<0, 0>>, <<0, 0>>, <<0, 0>>, <<1, 0>>, <<-1, 0>>, <<-1, 0>>, <<1, 0>>,
       <<-1, 0>>, <<1, 0>>, <<1, 0>>, <<-1, 0>>, <<-1, 0>>, <<1, 0>>, <<1, 0>>,
       <<-1, 0>>, <<1, 0>>, <<-1, 0>>, <<-1, 0>>, <<1, 0>>, <<0, 0>>, <<0, 0>>,
       <<0, 0>>, <<0, 0>>, <<0, 0>>, <<0, 0>>, <<0, 0>>, <<0, 0>>, <<0, 0>>, <<0, 0>>,
       <<0, 0>>, <<0, 0>>, <<0, 0>>, <<0, 0>>, <<0, 0>>, <<0, 0>>, <<0, 0>>,
       <<0, 0>>>>]

\* the snapping of a trace in _get_G1_char: an imaginary part below EPSILON10 is
\* dropped, and a trace within EPSILON10 of 0, 1 or -1 becomes exactly that; the
\* trace is counted in whole units from here on
Snap(trace) ==
  LET re == <<trace[1][1] \div 2, trace[1][2] \div 2, trace[1][3]>>
  IN  IF ~Tiny(trace[2]) THEN <<re[1], re[2], re[3], trace[2]>>
      ELSE IF re[2] = 0 /\ re[1] \in {-1, 0, 1} THEN <<re[1], 0, 0>>
      ELSE re

\* np.trace(g_elem) of one lift, snapped
Trace(g_elem) ==
  Snap(<<Plus(g_elem[1][1][1], g_elem[2][2][1]), Plus(g_elem[1][1][2], g_elem[2][2][2])>>)

\* the list characters: one snapped trace per element of the double cover
Traces(OhP_double) == Stored([p \in 1..Len(OhP_double) |-> Trace(OhP_double[p])])

\* "return np.array([characters]*2)"
TwoRows(characters) == <<characters, characters>>

\* _get_G1_char(parity): the traces of the lifts of OhP_double_PLUS or
\* OhP_double_MINUS, in two equal rows
get_G1_char(parity, eig) ==
  TwoRows(Traces(get_double_cover_group(parity, eig).OhP_double))

\* the spinor keys without those of H
SpinorCharKeys_WithoutH ==
  {"OhP_G1PLUS", "OhP_G1MINUS", "OhP_G2PLUS", "OhP_G2MINUS"}

\* the keys of chardict that hold one character per element of the double cover
SpinorCharKeys ==
  {"OhP_G1PLUS", "OhP_G1MINUS", "OhP_G2PLUS", "OhP_G2MINUS", "OhP_HPLUS", "OhP_HMINUS"}

\* self.chardict[key] for every key: the rows as they are stored
chardict_entry(key, eig) ==
  CASE key \in {"OhP_G1PLUS", "OhP_G1MINUS"} ->
         get_G1_char(IF key = "OhP_G1PLUS" THEN 1 ELSE -1, eig)
    [] key \in SpinorCharKeys -> chardict_spinor(key)
    [] OTHER -> chardict(key)

\* a read of a dictionary of the object: the value, or KeyError
Lookup(keys, key, value) ==
  IF key \in keys THEN [outcome |-> "return", value |-> value]
  ELSE [outcome |-> "KeyError", value |-> <<>>]

(***************************************************************************)
(* The construction and reads of its tables                                *)
(***************************************************************************)
Parities == {1, -1}

\* the labels a table is asked for: those of the tables and two that no table holds
TableKeys == CharKeys \cup SpinorCharKeys \cup BTKeys \cup {"Dic2_E2", "OhP_E2"}

\* _get_double_cover_group(parity), as __init__ calls it
GetDoubleCoverGroup ==
  Fresh /\ \E parity \in Parities, eig \in EigOrientations :
    /\ op' = "_get_double_cover_group"
    /\ arg' = [parity |-> parity, eig |-> eig]
    /\ outcome' = "return"
    /\ result' = get_double_cover_group(parity, eig)

\* _get_G1_char(parity), as __init__ calls it
GetG1Char ==
  Fresh /\ \E parity \in Parities, eig \in EigOrientations :
    /\ op' = "_get_G1_char"
    /\ arg' = [parity |-> parity, eig |-> eig]
    /\ outcome' = "return"
    /\ result' = get_G1_char(parity, eig)

\* the irrep labels of the three groups
IrrepLabels ==
  {"A1PLUS", "A2PLUS", "EPLUS", "T1PLUS", "T2PLUS", "A1MINUS", "A2MINUS", "EMINUS",
   "T1MINUS", "T2MINUS", "G1PLUS", "G1MINUS", "G2PLUS", "G2MINUS", "HPLUS", "HMINUS",
   "A1", "A2", "B1", "B2", "E2"}

\* the keys of chardict that belong to a group
KeysOf(group) ==
  {group \o "_" \o l : l \in IrrepLabels} \cap (CharKeys \cup SpinorCharKeys)

\* two keys of one group whose vectors have the same length
Comparable(first, second) ==
  /\ \E group \in GroupNames : first \in KeysOf(group) /\ second \in KeysOf(group)
  /\ (first \in SpinorCharKeys) = (second \in SpinorCharKeys)

\* a read of self.chardict under two keys of one group whose vectors have the same
\* length
ReadCharacters ==
  Fresh /\ \E group \in GroupNames, eig \in EigOrientations :
    \E first \in KeysOf(group), second \in KeysOf(group) :
      /\ Comparable(first, second)
      /\ op' = "chardict"
      /\ arg' = [first |-> first, second |-> second, eig |-> eig]
      /\ outcome' = "return"
      /\ result' = <<chardict_entry(first, eig), chardict_entry(second, eig)>>

\* a read of self.bTdict and of self.chardict under one key
ReadTables ==
  Fresh /\ \E key \in TableKeys, eig \in EigOrientations :
    LET bT == Lookup(BTKeys, key, [rows |-> bTdict(key)])
        chi == Lookup(CharKeys \cup SpinorCharKeys, key,
                      [rows |-> chardict_entry(key, eig)])
    IN  /\ op' = "tables"
        /\ arg' = [key |-> key, eig |-> eig]
        /\ outcome' = "return"
        /\ result' = [bTdict |-> bT, chardict |-> chi]

NextTables ==
  \/ GetDoubleCoverGroup
  \/ GetG1Char
  \/ ReadCharacters
  \/ ReadTables

SpecTables == Init /\ [][NextTables]_vars

(***************************************************************************)
(* C11: orthonormality of the character vectors                            *)
(***************************************************************************)
\* the first row of a chardict entry in exact values: <<a, b>> stands for a + b*sqrt(2)
ExactRow(key, rows) ==
  IF key \in CharKeys THEN [k \in 1..Len(rows[1]) |-> <<rows[1][k], 0>>]
  ELSE [k \in 1..Len(rows[1]) |-> <<rows[1][k][1], rows[1][k][2]>>]

\* the sum over the elements of the products of two real character vectors
CharacterSum(u, v) ==
  <<SumOver([k \in 1..Len(u) |-> u[k][1] * v[k][1] + 2 * u[k][2] * v[k][2]], 1..Len(u)),
    SumOver([k \in 1..Len(u) |-> u[k][1] * v[k][2] + u[k][2] * v[k][1]], 1..Len(u))>>

\* the group average of the two vectors read is 1 for one key and 0 for two
AverageIsDelta ==
  LET u == ExactRow(arg.first, result[1])
      v == ExactRow(arg.second, result[2])
  IN  CharacterSum(u, v) = <<(IF arg.first = arg.second THEN Len(u) ELSE 0), 0>>

\* a pair of a computed vector (G1) and a hard-coded spinor vector (G2, H)
ComputedWithHardCoded(first, second) ==
  \/ first \in {"OhP_G1PLUS", "OhP_G1MINUS"}
       /\ second \in SpinorCharKeys \ {"OhP_G1PLUS", "OhP_G1MINUS"}
  \/ second \in {"OhP_G1PLUS", "OhP_G1MINUS"}
       /\ first \in SpinorCharKeys \ {"OhP_G1PLUS", "OhP_G1MINUS"}

GroupOfKey(key) == CHOOSE group \in GroupNames : key \in KeysOf(group)

\* every row of a table read has the length n
RowsOfLength(read, n) ==
  \A r \in 1..Len(read.value.rows) : Len(read.value.rows[r]) = n

\* the key read is one of a table, both tables hold it and every row of both has as many
\* entries as the group has elements
BothTablesOfGroupOrder ==
  /\ result.bTdict.outcome = "return"
  /\ result.chardict.outcome = "return"
  /\ RowsOfLength(result.bTdict, Len(GroupTable(GroupOfKey(arg.key))))
  /\ RowsOfLength(result.chardict, Len(GroupTable(GroupOfKey(arg.key))))

\* C12 as stated: 10 integer-spin and 4 half-integer-spin irreps for OhP, 4 irreps for
\* Dic4, 4 for Dic2, and every irrep with both tables, their rows of group-order length
C12_FourSpinorIrrepsAllTabulated ==
  /\ Cardinality(KeysOf("OhP") \ SpinorCharKeys) = 10
  /\ Cardinality(KeysOf("OhP") \cap SpinorCharKeys) = 4
  /\ Cardinality(KeysOf("Dic4")) = 4
  /\ Cardinality(KeysOf("Dic2")) = 4
  /\ op = "tables" /\ arg.key \in CharKeys \cup SpinorCharKeys \cup BTKeys
       => BothTablesOfGroupOrder

\* C12: 10 integer-spin and 6 half-integer-spin irreps for OhP, 5 irreps for Dic4 and 4
\* for Dic2; every integer-spin irrep has a basis-vector and a character table whose
\* rows have group-order length; a half-integer-spin irrep has a character table only,
\* its rows twice as long as the group order
C12_SixSpinorIrrepsCharactersOnly ==
  /\ Cardinality(KeysOf("OhP") \ SpinorCharKeys) = 10
  /\ Cardinality(KeysOf("OhP") \cap SpinorCharKeys) = 6
  /\ Cardinality(KeysOf("Dic4")) = 5
  /\ Cardinality(KeysOf("Dic2")) = 4
  /\ BTKeys = CharKeys
  /\ op = "tables" /\ arg.key \in CharKeys => BothTablesOfGroupOrder
  /\ op = "tables" /\ arg.key \in SpinorCharKeys
       => /\ result.bTdict.outcome = "KeyError"
          /\ result.chardict.outcome = "return"
          /\ RowsOfLength(result.chardict, 2 * Len(OhP))

\* the tables have been read under HPLUS: no basis vectors, four rows of 96 characters
C12_Witness ==
  /\ op = "tables"
  /\ arg.key = "OhP_HPLUS"
  /\ result.bTdict.outcome = "KeyError"
  /\ Len(result.chardict.value.rows) = 4
  /\ RowsOfLength(result.chardict, 96)

(***************************************************************************)
(* C13: the integer-spin list of the double cover                          *)
(***************************************************************************)
\* both lists have two positions for every element of OhP
TwoPositionsPerElement ==
  /\ Len(result.OhP_double) = 2 * Len(OhP)
  /\ Len(result.OhP_double_intspin) = 2 * Len(OhP)

\* C13 as stated: for either parity the lists have length 96 and the integer-spin list
\* holds OhP[i] at positions 2i and 2i+1
C13_OriginalMatrixTwice ==
  op = "_get_double_cover_group" =>
    /\ TwoPositionsPerElement
    /\ \A i \in 1..Len(OhP) :
         /\ result.OhP_double_intspin[2 * i - 1] = OhP[i]
         /\ result.OhP_double_intspin[2 * i] = OhP[i]

\* what the code does instead: the list built for parity 1 holds the identity at the
\* two positions of the inversion, element 24 of the source table
C13_ProperPartHeld ==
  /\ op = "_get_double_cover_group"
  /\ arg.parity = 1
  /\ OhP[25] = Scale(Identity3, -1)
  /\ result.OhP_double_intspin[49] = Identity3
  /\ result.OhP_double_intspin[50] = Identity3

(***************************************************************************)
(* C14: the two sheets                                                     *)
(***************************************************************************)
\* the entries of the two lifts of OhP[i]
FirstSheet(i, j, k) == result.OhP_double[2 * i - 1][j][k]

SecondSheet(i, j, k) == result.OhP_double[2 * i][j][k]

\* y is -x as a double
ExactlyMinus(x, y) == y = Times(-1, x)

\* y stands for minus the value x stands for, and the two doubles add up to less than
\* EPSILON10, which is 10000000 units of 1e-17
MinusUpToRounding(x, y) ==
  /\ y[1] = -x[1]
  /\ y[2] = -x[2]
  /\ x[3] + y[3] < 10000000
  /\ x[3] + y[3] > -10000000

\* C14 as stated: the second lift of every element is exactly -1 times the first
C14_ExactNegatives ==
  op = "_get_double_cover_group" =>
    \A i \in 1..Len(OhP), j \in 1..2, k \in 1..2 :
      /\ ExactlyMinus(FirstSheet(i, j, k)[1], SecondSheet(i, j, k)[1])
      /\ ExactlyMinus(FirstSheet(i, j, k)[2], SecondSheet(i, j, k)[2])

\* C14: the second lift of every element is the negative of the first up to the
\* rounding of the doubles, and the two lifts differ
C14_NegativesUpToRounding ==
  op = "_get_double_cover_group" =>
    \A i \in 1..Len(OhP) :
      /\ \A j \in 1..2, k \in 1..2 :
           /\ MinusUpToRounding(FirstSheet(i, j, k)[1], SecondSheet(i, j, k)[1])
           /\ MinusUpToRounding(FirstSheet(i, j, k)[2], SecondSheet(i, j, k)[2])
      /\ result.OhP_double[2 * i - 1] # result.OhP_double[2 * i]

\* the lifts of a threefold rotation, element 7 of the source table: the upper left
\* entries have the real parts 0.5000000000000001 and -0.5000000000000004
C14_Witness ==
  /\ op = "_get_double_cover_group"
  /\ arg.eig = "recorded"
  /\ FirstSheet(8, 1, 1)[1] = <<1, 0, 11>>
  /\ SecondSheet(8, 1, 1)[1] = <<-1, 0, -44>>

(***************************************************************************)
(* _clean_projector                                                        *)
(*                                                                         *)
(* np.linalg.eig and np.linalg.qr are numerical code outside the           *)
(* repository: the eigenvalues and eigenvectors of proj and the factor Q   *)
(* of the chopped eigenvectors are inputs of the call, Q bound by the      *)
(* contract of a QR factorisation.  A real number is held as <<n, t>>: it  *)
(* stands for n/5, and t counts a remainder below EPSILON8 = 1e-8, so a    *)
(* number is below EPSILON8 in magnitude exactly when n = 0.  A complex    *)
(* number is <<re, im>>.                                                   *)
(***************************************************************************)
\* np.abs(x) < EPSILON8 for a real x
BelowEps8(x) == x[1] = 0

NoReal == <<0, 0>>

\* the chop of an eigenvalue and of an entry of an eigenvector: an imaginary part below
\* EPSILON8 is dropped, a real number below EPSILON8 becomes 0.0, and a real part below
\* EPSILON8 leaves the imaginary part alone
ChopEps8(z) ==
  LET a == IF BelowEps8(z[2]) THEN <<z[1], NoReal>> ELSE z
      b == IF a[2] = NoReal /\ BelowEps8(a[1]) THEN <<NoReal, NoReal>> ELSE a
  IN  IF BelowEps8(b[1]) THEN <<NoReal, b[2]>> ELSE b

\* the positions of eigvals_chop kept by every test
NonzeroPositions_All(eigvals_chop) == 1..Len(eigvals_chop)

\* np.where(eigvals_chop != np.array(0.0))[0]
NonzeroPositions(eigvals_chop) ==
  {i \in 1..Len(eigvals_chop) : eigvals_chop[i] # <<NoReal, NoReal>>}

\* the rows of rowsT at the positions of keep, in their order
RowsAt(rowsT, keep) ==
  LET order == Ascending(keep)
  IN  [i \in 1..Len(order) |-> rowsT[order[i]]]

\* every entry of a matrix chopped
ChopAll(M) == [i \in 1..Len(M) |-> [j \in 1..Len(M[i]) |-> ChopEps8(M[i][j])]]

\* conj(x)*y for two complex numbers, counted in units of 1/25, remainders left out
ConjTimes(x, y) ==
  <<x[1][1] * y[1][1] + x[2][1] * y[2][1], x[1][1] * y[2][1] - x[2][1] * y[1][1]>>

\* u@conj(v) summed over the entries of two rows
Inner(u, v) ==
  <<SumOver([r \in 1..Len(u) |-> ConjTimes(v[r], u[r])[1]], 1..Len(u)),
    SumOver([r \in 1..Len(u) |-> ConjTimes(v[r], u[r])[2]], 1..Len(u))>>

\* the rows of QT are orthonormal
OrthonormalRows(QT) ==
  \A i \in 1..Len(QT), j \in 1..Len(QT) :
    Inner(QT[i], QT[j]) = <<(IF i = j THEN 25 ELSE 0), 0>>

\* the contract of np.linalg.qr(A) for the matrix whose columns are the rows of AT: the
\* factor Q, given by its columns QT, has as many orthonormal columns as A, and
\* R = Q^dagger A is upper triangular
IsQOf(QT, AT) ==
  /\ Len(QT) = Len(AT)
  /\ OrthonormalRows(QT)
  /\ \A i \in 1..Len(QT), j \in 1..Len(AT) : i > j => Inner(AT[j], QT[i]) = <<0, 0>>

\* eigvecT/norm with norm = np.sqrt(eigvecT@np.conjugate(eigvecT)); the rows of Q have
\* norm 1 by the contract of qr, and no other row is divided here
Normalised(eigvecT) ==
  CASE Inner(eigvecT, eigvecT) = <<25, 0>> -> eigvecT

\* eigvecsT_chop: the eigenvectors (one per row of eigvecsT) whose chopped eigenvalue
\* is not zero, every entry chopped
eigvecsT_chop(eigvals, eigvecsT) ==
  LET eigvals_chop == [i \in 1..Len(eigvals) |-> ChopEps8(eigvals[i])]
  IN  ChopAll(RowsAt(eigvecsT, NonzeroPositions(eigvals_chop)))

\* _clean_projector(proj), eig(proj) being the eigenvalues eigvals with the
\* eigenvectors eigvecsT, and QT the columns of the factor qr returns for
\* eigvecsT_chop.T: the value is finalproj, given by its columns
clean_projector(eigvals, eigvecsT, QT) ==
  LET eigvecsT_chop_onorm == [i \in 1..Len(QT) |-> Normalised(QT[i])]
  IN  [outcome |-> "return", value |-> ChopAll(eigvecsT_chop_onorm)]

\* a complex number without remainders
Exactly(re, im) == <<<<re, 0>>, <<im, 0>>>>

\* the sizes of proj
ProjectorSizes == {1, 2}

\* eigenvalues: 0, 1 and i, remainders below EPSILON8 alone, and 1 and i with them
Eigenvalues ==
  {Exactly(0, 0), Exactly(5, 0), Exactly(0, 5),
   <<<<0, 1>>, <<0, 0>>>>, <<<<0, 1>>, <<0, -1>>>>,
   <<<<5, 0>>, <<0, 1>>>>, <<<<0, -1>>, <<5, 0>>>>}

\* vectors of norm 1 with n entries, some with remainders below EPSILON8
UnitVectors(n) ==
  IF n = 1
  THEN {<<Exactly(5, 0)>>, <<Exactly(-5, 0)>>, <<Exactly(0, 5)>>,
        <<<<<<5, 0>>, <<0, 1>>>>>>}
  ELSE {<<Exactly(5, 0), Exactly(0, 0)>>, <<Exactly(0, 0), Exactly(5, 0)>>,
        <<Exactly(3, 0), Exactly(4, 0)>>, <<Exactly(-4, 0), Exactly(3, 0)>>,
        <<Exactly(0, 5), Exactly(0, 0)>>,
        <<Exactly(3, 0), Exactly(0, 4)>>, <<Exactly(0, 4), Exactly(3, 0)>>,
        <<<<<<5, 0>>, <<0, 1>>>>, <<<<0, -1>>, <<0, 0>>>>>>,
        <<<<<<0, 1>>, <<0, 1>>>>, <<<<-5, 0>>, <<0, 0>>>>>>}

\* the factors qr may return for the matrix whose columns are the rows of AT
QChoices(AT, n) ==
  {QT \in UNION {[1..k -> UnitVectors(n)] : k \in 0..n} : IsQOf(QT, AT)}

CleanProjector ==
  Fresh /\ \E n \in ProjectorSizes :
    \E eigvals \in [1..n -> Eigenvalues], eigvecsT \in [1..n -> UnitVectors(n)] :
      \E QT \in QChoices(eigvecsT_chop(eigvals, eigvecsT), n) :
        LET r == clean_projector(eigvals, eigvecsT, QT)
        IN  /\ op' = "_clean_projector"
            /\ arg' = [eigvals |-> eigvals, eigvecsT |-> eigvecsT, Q |-> QT]
            /\ outcome' = r.outcome
            /\ result' = r.value

NextClean == CleanProjector

SpecClean == Init /\ [][NextClean]_vars

\* an eigenvalue whose real and imaginary part are both below EPSILON8
ChoppedToZero(eigval) == eigval[1][1] = 0 /\ eigval[2][1] = 0

\* C15: the matrix _clean_projector returns has orthonormal columns, and as many
\* columns as proj has eigenvalues whose chopped value is not zero
C15_OrthonormalColumnsCounted ==
  op = "_clean_projector" /\ outcome = "return" =>
    /\ OrthonormalRows(result)
    /\ Len(result)
         = Cardinality({i \in 1..Len(arg.eigvals) : ~ChoppedToZero(arg.eigvals[i])})

\* a projector of size 2 of which one eigenvalue, not 0 but below EPSILON8, is
\* discarded, and a remainder of the factor Q is chopped away
C15_Witness ==
  /\ op = "_clean_projector" /\ outcome = "return"
  /\ Len(arg.eigvals) = 2 /\ Len(result) = 1
  /\ \E i \in 1..2 : ChoppedToZero(arg.eigvals[i]) /\ arg.eigvals[i] # Exactly(0, 0)
  /\ result # arg.Q

(***************************************************************************)
(* The builders with spin on an object built with spin_half                *)
(***************************************************************************)
\* np.conjugate(U.T) for a 2x2 matrix of the double cover
ConjugateTranspose(U) ==
  [r \in 1..2 |-> [c \in 1..2 |-> <<U[c][r][1], Times(-1, U[c][r][2])>>]]

\* generate_wigner_d_half(spin, g_elem), g_elem a pair [g_elem_intspin, g_elem_halfspin]
generate_wigner_d_half(spin, g_elem) == g_elem[2]

\* generate_induced_rep_nonint_three_particles_spin on the half-integer path
\* (self.spin_half = True), g_elem a pair; the Kronecker product is held by its
\* factors, the permutation matrix and the three spin matrices
generate_induced_rep_nonint_three_particles_spin_half(identical_arr, nonidentical_arr, first_spin2, second_spin2, third_spin2, g_elem, definite_iso) ==
  LET g_elem_intspin == g_elem[1]
      loc == Stored([i \in 1..Len(identical_arr) |->
               ThreeParticleLoc(identical_arr, g_elem_intspin, i)])
  IN  IF \E i \in 1..Len(identical_arr) : Cardinality(loc[i]) # 1
      THEN [outcome |-> "AssertionError", value |-> <<>>]
      ELSE LET loc_inds == Stored([i \in 1..Len(identical_arr) |-> Ascending(loc[i])[1]])
               wig_d_first_spin ==
                 ConjugateTranspose(generate_wigner_d_half(first_spin2, g_elem))
               wig_d_second_spin ==
                 ConjugateTranspose(generate_wigner_d_half(second_spin2, g_elem))
               wig_d_third_spin ==
                 ConjugateTranspose(generate_wigner_d_half(third_spin2, g_elem))
           IN  [outcome |-> "return",
                value |-> [nonint_rot_matrix |-> RowsFrom(loc_inds),
                           wig_d |-> <<wig_d_first_spin, wig_d_second_spin,
                                       wig_d_third_spin>>]]

\* the pairs [g_elem_intspin, g_elem_halfspin] of the lists OhP_double_MINUS_intspin and
\* OhP_double_PLUS, taken at the same position
ElementPairs ==
  {<<g, SpinorLift(ProperPart(g), Eigenvector(ProperPart(g), "recorded"), sheet, 1)>> :
     g \in Elements, sheet \in {0, 1}}

\* the two-particle builder never reads self.spin_half
SpinTwoParticles ==
  Fresh /\ \E spin_half \in BOOLEAN, nvecset_batched \in PairSpaces, s1 \in TwiceSpins,
     s2 \in TwiceSpins, g \in Elements, identical \in BOOLEAN :
    LET r == generate_induced_rep_nonint_two_particles(nvecset_batched, s1, s2, g,
                                                       identical)
    IN  /\ op' = "generate_induced_rep_nonint_two_particles"
        /\ arg' = [spin_half |-> spin_half, nvecset_batched |-> nvecset_batched,
                   first_spin2 |-> s1, second_spin2 |-> s2, g_elem |-> g,
                   particles_are_identical |-> identical]
        /\ outcome' = r.outcome
        /\ result' = r.value

SpinThreeParticlesInteger ==
  Fresh /\ \E space \in ThreeSpinSpaces, g \in Elements, definite_iso \in BOOLEAN,
     s1 \in TwiceSpins, s2 \in TwiceSpins, s3 \in TwiceSpins :
      LET r == generate_induced_rep_nonint_three_particles_spin(
                 space[1], space[2], s1, s2, s3, g, definite_iso)
      IN  /\ op' = "generate_induced_rep_nonint_three_particles_spin"
          /\ arg' = [spin_half |-> FALSE, identical_arr |-> space[1],
                     nonidentical_arr |-> space[2], first_spin2 |-> s1,
                     second_spin2 |-> s2, third_spin2 |-> s3, g_elem |-> g,
                     definite_iso |-> definite_iso]
          /\ outcome' = r.outcome
          /\ result' = r.value

SpinThreeParticlesHalf ==
  Fresh /\ \E space \in ThreeSpinSpaces, g \in ElementPairs, definite_iso \in BOOLEAN,
     s1 \in TwiceSpins, s2 \in TwiceSpins, s3 \in TwiceSpins :
      LET r == generate_induced_rep_nonint_three_particles_spin_half(
                 space[1], space[2], s1, s2, s3, g, definite_iso)
      IN  /\ op' = "generate_induced_rep_nonint_three_particles_spin"
          /\ arg' = [spin_half |-> TRUE, identical_arr |-> space[1],
                     nonidentical_arr |-> space[2], first_spin2 |-> s1,
                     second_spin2 |-> s2, third_spin2 |-> s3, g_elem |-> g,
                     definite_iso |-> definite_iso]
          /\ outcome' = r.outcome
          /\ result' = r.value

NextSpin ==
  \/ SpinTwoParticles
  \/ SpinThreeParticlesInteger
  \/ SpinThreeParticlesHalf

SpecSpin == Init /\ [][NextSpin]_vars

\* the last call is a call of one of the two builders with spin arguments
SpinBuilderCalled ==
  op \in {"generate_induced_rep_nonint_two_particles",
          "generate_induced_rep_nonint_three_particles_spin"}

\* a spin argument of the last call is not an integer
SomeSpinNotInteger ==
  \/ arg.first_spin2 % 2 = 1
  \/ arg.second_spin2 % 2 = 1
  \/ op = "generate_induced_rep_nonint_three_particles_spin" /\ arg.third_spin2 % 2 = 1

\* every rotated entry of the last call is found as the builder wants it
EveryEntryFound ==
  IF op = "generate_induced_rep_nonint_two_particles"
  THEN generate_induced_rep_nonint_two_particles(
         arg.nvecset_batched, 0, 0, arg.g_elem, arg.particles_are_identical).outcome
       = "return"
  ELSE generate_induced_rep_nonint_three_particles_spin(
         arg.identical_arr, arg.nonidentical_arr, 0, 0, 0,
         (IF arg.spin_half THEN arg.g_elem[1] ELSE arg.g_elem), arg.definite_iso).outcome
       = "return"

\* C16 as stated: a spin that is not an integer ends both builders in an error when
\* spin_half is false, and with spin_half true neither builder checks the spins.
C16_CheckedOnlyWithoutSpinHalf ==
  SpinBuilderCalled =>
    /\ (~arg.spin_half /\ SomeSpinNotInteger) => outcome # "return"
    /\ (arg.spin_half /\ EveryEntryFound) => outcome = "return"

\* C16, amended: a spin that is not an integer ends the three-particle builder in an
\* error when spin_half is false and the two-particle builder in an error whatever
\* spin_half is; the three-particle builder with spin_half true does not check the spins.
C16_TwoParticlesAlwaysChecked ==
  SpinBuilderCalled =>
    /\ ( /\ SomeSpinNotInteger
         /\ (op = "generate_induced_rep_nonint_two_particles" \/ ~arg.spin_half) )
         => outcome \in {"AssertionError", "ValueError"} /\ result = <<>>
    /\ ( /\ op = "generate_induced_rep_nonint_three_particles_spin"
         /\ arg.spin_half /\ EveryEntryFound )
         => outcome = "return"

\* the three-particle builder without spin_half, every entry found, rejects spin 1/2
C16_Witness ==
  /\ op = "generate_induced_rep_nonint_three_particles_spin"
  /\ ~arg.spin_half /\ SomeSpinNotInteger /\ EveryEntryFound
  /\ outcome = "ValueError"

(***************************************************************************)
(* Sequences of calls on one object                                        *)
(*                                                                         *)
(* Here the state holds the object itself: result.self are its tables,     *)
(* result.value what the last call handed back, result.args the arguments  *)
(* of the last call as the call left them, and result.seen every call made *)
(* so far with what it handed back.                                        *)
(***************************************************************************)
\* the longest sequence of calls
MaxCalls == 2

\* the tables of the object when __init__ returns, eig being the orientation of the
\* axes np.linalg.eig gave to _get_double_cover_group
TablesAfterInit(eig) ==
  [OhP |-> OhP, Dic4 |-> Dic4, Dic2 |-> Dic2,
   OhP_double_PLUS |-> get_double_cover_group(1, eig).OhP_double,
   OhP_double_PLUS_intspin |-> get_double_cover_group(1, eig).OhP_double_intspin,
   OhP_double_MINUS |-> get_double_cover_group(-1, eig).OhP_double,
   OhP_double_MINUS_intspin |-> get_double_cover_group(-1, eig).OhP_double_intspin,
   bTdict |-> [key \in BTKeys |-> bTdict(key)],
   chardict |-> [key \in CharKeys \cup SpinorCharKeys |-> chardict_entry(key, eig)]]

InitFrame ==
  /\ op = "init"
  /\ arg = <<>>
  /\ outcome = "none"
  /\ \E eig \in EigOrientations :
       result = [value |-> <<>>, self |-> TablesAfterInit(eig), args |-> <<>>,
                 seen |-> {}, calls |-> 0, eig |-> eig]

\* a method that stores the character row it repeated back into the table
SelfAfter_RepeatStored(self, method, a) ==
  IF method = "get_proj_nonint_three_particles_spin"
  THEN [self EXCEPT !.chardict =
          [key \in DOMAIN self.chardict |->
             [r \in DOMAIN self.chardict[key] |->
                self.chardict[key][r] \o self.chardict[key][r]]]]
  ELSE self

\* the tables after a call of a method with the arguments a: no method assigns to an
\* attribute of self or to an entry of a table; every assignment outside __init__ is to
\* a name, an array or a dictionary made in the call (bT = np.repeat(bT, 2) binds the
\* name bT to a new array)
SelfAfter(self, method, a) == self

\* the arguments after the call: the methods read them (==, @, len, indexing) and
\* write to none
ArgsAfter(method, a) == a

\* a call of a method on the object of the current state
Call(method, a, r) ==
  /\ result.calls < MaxCalls
  /\ op' = method
  /\ arg' = a
  /\ outcome' = r.outcome
  /\ result' = [value |-> r.value,
                self |-> SelfAfter(result.self, method, a),
                args |-> ArgsAfter(method, a),
                seen |-> result.seen \cup
                           {[op |-> method, arg |-> a, outcome |-> r.outcome,
                             value |-> r.value]},
                calls |-> result.calls + 1,
                eig |-> result.eig]

FrameGetLittleGroup ==
  \E nP \in {<<0, 0, 0>>, <<0, 0, 1>>} :
    Call("get_little_group", [nP |-> nP], get_little_group(nP))

\* one list of three identical particles at rest and the orbit of a moving pair
FrameSpaces == {sp \in ThreeSpinSpaces : sp[1] = Orbit(<<Zero3, Zero3, Zero3>>, TRUE)}

FrameGetProjNonintThreeParticlesSpin ==
  \E nP \in {<<0, 0, 0>>, <<1, 0, 0>>}, irrep \in {"A1PLUS"},
     space \in FrameSpaces, s1 \in TwiceSpins :
    Call("get_proj_nonint_three_particles_spin",
         [nP |-> nP, irrep |-> irrep, irow |-> 0, identical_arr |-> space[1],
          nonidentical_arr |-> space[2], first_spin2 |-> s1, second_spin2 |-> 0,
          third_spin2 |-> 0, definite_iso |-> FALSE],
         get_proj_nonint_three_particles_spin(nP, irrep, 0, space[1], space[2],
                                              s1, 0, 0, FALSE))

FrameQcis ==
  {<<[nP |-> nP, eigvalsround |-> <<<<e, 1>>>>, slack |-> FALSE]>> :
     nP \in {<<0, 0, 0>>}, e \in {1}}

FrameGetProjNonintThreePionsShell ==
  \E qcis \in FrameQcis :
    Call("get_proj_nonint_three_pions_shell", [qcis |-> qcis],
         get_proj_nonint_three_pions_shell(qcis))

NextFrame ==
  \/ FrameGetLittleGroup
  \/ FrameGetProjNonintThreeParticlesSpin
  \/ FrameGetProjNonintThreePionsShell

SpecFrame == InitFrame /\ [][NextFrame]_vars

ChannelIsospin == 1

\* isoset of a three-particle reporter and of the two-particle reporter
ThreeParticleIsoset(definite_iso) == IF definite_iso THEN <<0, 1, 2, 3>> ELSE <<0>>

TwoParticleIsoset(isospin_channel) == IF isospin_channel THEN <<ChannelIsospin>> ELSE <<0>>

\* master_dict when the loop over the shells is done: the text under 'summary', here
\* the totals it reports, and, if the reporter has the line
\* master_dict[(shell_index, isovalue)] = non_proj_dict, the dictionary of every shell
\* and isovalue under its key
master_dict(shells, isoset, files, totals) ==
  LET keys == IF files
              THEN {<<s - 1, isoset[d]>> : s \in 1..Len(shells), d \in 1..Len(isoset)}
              ELSE {}
  IN  [summary |-> [shell_totals |-> totals],
       projectors |->
         [key \in keys |->
            shells[key[1] + 1].dicts[CHOOSE d \in 1..Len(isoset) : isoset[d] = key[2]]]]

\* what a reporter returns, r being the outcome of its loop over the shells
Returned(r, shells, isoset, files) ==
  IF r.outcome # "return" THEN r
  ELSE [outcome |-> "return",
        value |-> master_dict(shells, isoset, files, r.value.shell_totals)]

\* get_proj_nonint_three_pions_dict with the dictionary it returns
three_pions_master_dict(qcis) ==
  LET r == get_proj_nonint_three_pions_dict(qcis)
  IN  IF r.outcome # "return" THEN r
      ELSE Returned(r, qcis[1].shells, ThreeParticleIsoset(qcis[1].definite_iso), TRUE)

\* get_proj_nonint_three_spinning_dict with the dictionary it returns: the loop over
\* isoset has no line that files non_proj_dict
three_spinning_master_dict(qcis) ==
  LET r == get_proj_nonint_three_spinning_dict(qcis)
  IN  IF r.outcome # "return" THEN r
      ELSE Returned(r, qcis[1].shells, ThreeParticleIsoset(qcis[1].definite_iso), FALSE)

\* get_proj_nonint_two_particles_dict with the dictionary it returns
two_particles_master_dict(qcis, isospin_channel) ==
  LET r == get_proj_nonint_two_particles_dict(qcis, isospin_channel)
  IN  IF r.outcome # "return" THEN r
      ELSE Returned(r, qcis[1].shells, TwoParticleIsoset(isospin_channel), TRUE)

ReturnThreePionsDict ==
  Fresh /\ \E qcis \in ThreeParticleQcis({<<0, 0, 0>>}) :
    LET r == three_pions_master_dict(qcis)
    IN  /\ op' = "get_proj_nonint_three_pions_dict"
        /\ arg' = [qcis |-> qcis]
        /\ outcome' = r.outcome
        /\ result' = r.value

ReturnThreeSpinningDict ==
  Fresh /\ \E qcis \in ThreeParticleQcis(SpinLists(3)) :
    LET r == three_spinning_master_dict(qcis)
    IN  /\ op' = "get_proj_nonint_three_spinning_dict"
        /\ arg' = [qcis |-> qcis]
        /\ outcome' = r.outcome
        /\ result' = r.value

ReturnTwoParticlesDict ==
  Fresh /\ \E qcis \in TwoParticleQcis, isospin_channel \in BOOLEAN :
    LET r == two_particles_master_dict(qcis, isospin_channel)
    IN  /\ op' = "get_proj_nonint_two_particles_dict"
        /\ arg' = [qcis |-> qcis, isospin_channel |-> isospin_channel]
        /\ outcome' = r.outcome
        /\ result' = r.value

NextMaster ==
  \/ ReturnThreePionsDict
  \/ ReturnThreeSpinningDict
  \/ ReturnTwoParticlesDict

SpecMaster == Init /\ [][NextMaster]_vars

\* the isovalues the reporter of the last call goes through
IsosetOfCall ==
  IF op = "get_proj_nonint_two_particles_dict"
  THEN (IF arg.isospin_channel THEN {ChannelIsospin} ELSE {0})
  ELSE (IF arg.qcis[1].definite_iso THEN 0..3 ELSE {0})

\* the returned dictionary has an entry for every shell and isovalue gone through
HoldsEveryShell ==
  \A s \in 1..Len(arg.qcis[1].shells), isovalue \in IsosetOfCall :
    <<s - 1, isovalue>> \in DOMAIN result.projectors

\* C18: the dictionary get_proj_nonint_three_spinning_dict returns has, besides
\* 'summary', an entry keyed (shell_index, isovalue) for every shell and isovalue it
\* went through, as the dictionaries of the other two reporters have
C18_SpinningDictHoldsProjectors ==
  op \in DictReporters /\ outcome = "return" => HoldsEveryShell

\* the other two reporters do file the dictionary of every shell and isovalue
C18_OthersHoldProjectors ==
  ( /\ op \in {"get_proj_nonint_three_pions_dict", "get_proj_nonint_two_particles_dict"}
    /\ outcome = "return" ) => HoldsEveryShell

(***************************************************************************)
(* The entry points above the shells, and the momentum each accepts        *)
(***************************************************************************)
\* get_proj_nonint_three_spinning_shell for qcis.fvs.spin_half = True: group_str is
\* bound for nP@nP == 0 only, and read at the head of the loop over irrep_set
get_proj_nonint_three_spinning_shell_half(qcis) ==
  IF qcis = <<>> THEN [outcome |-> "ValueError", value |-> <<>>]
  ELSE IF Dot(qcis[1].nP, qcis[1].nP) \notin {0, 1, 2}
  THEN [outcome |-> "ValueError", value |-> <<>>]
  ELSE IF Dot(qcis[1].nP, qcis[1].nP) # 0
  THEN IF Len(qcis[1].eigvalsround) > 0
       THEN [outcome |-> "UnboundLocalError", value |-> <<>>]
       ELSE [outcome |-> "return", value |-> <<>>]
  ELSE PairsLoop(qcis[1], 1, <<>>, TRUE)

\* group_str as the dictionary-level entry points bind it: by nP@nP, not bound for any
\* other value
GroupOfNorm(nP) ==
  CASE Dot(nP, nP) = 0 -> "OhP"
    [] Dot(nP, nP) = 1 -> "Dic4"
    [] Dot(nP, nP) = 2 -> "Dic2"
    [] OTHER -> "unbound"

\* the entries (irrep, irrep_row) of proj_dict for the irreps from position k on, each
\* cleaned projector having q.cols columns; one without a column is not filed
RECURSIVE FiledEntries(_, _, _)
FiledEntries(q, group, k) ==
  IF k > Len(q.irrep_set) THEN <<>>
  ELSE [r \in 1..(IF q.cols = 0 THEN 0 ELSE Len(bTdict(group \o "_" \o q.irrep_set[k]))) |->
          [irrep |-> q.irrep_set[k], row |-> r - 1, cols |-> q.cols, real |-> q.real]]
       \o FiledEntries(q, group, k + 1)

\* the loops over irrep_set and irrep_row of the three dictionary-level entry points:
\* the first step that fails, or proj_dict.  self.qcis is read in the loop, an
\* attribute no method of the class sets (q.attached: it has been set from outside);
\* misfit: kellm_shell is not a multiple of len(ellm_set); rejected: the error numpy
\* raises on the exception object get_kellm_proj returns
IrrepsLoop(q, misfit, rejected) ==
  LET group == GroupOfNorm(q.nP)
      key(k) == group \o "_" \o q.irrep_set[k]
  IN  IF q.irrep_set = <<>> THEN [outcome |-> "return", value |-> <<>>]
      ELSE IF group = "unbound" THEN [outcome |-> "UnboundLocalError", value |-> <<>>]
      ELSE IF key(1) \notin BTKeys THEN [outcome |-> "KeyError", value |-> <<>>]
      ELSE IF ~q.attached THEN [outcome |-> "AttributeError", value |-> <<>>]
      ELSE IF misfit THEN [outcome |-> "AssertionError", value |-> <<>>]
      ELSE IF group_str(q.nP) = "unsupported" THEN [outcome |-> rejected, value |-> <<>>]
      ELSE IF \E k \in 1..Len(q.irrep_set) : key(k) \notin BTKeys
      THEN [outcome |-> "KeyError", value |-> <<>>]
      ELSE [outcome |-> "return", value |-> FiledEntries(q, group, 1)]

\* proj_dict with the two entries _get_summary adds
WithSummary(q, loop) ==
  IF loop.outcome # "return" THEN loop
  ELSE IF GroupOfNorm(q.nP) = "unbound"
  THEN [outcome |-> "UnboundLocalError", value |-> <<>>]
  ELSE LET s == get_summary(loop.value, GroupOfNorm(q.nP), q.total_size)
       IN  IF s.outcome # "return" THEN s
           ELSE [outcome |-> "return",
                 value |-> [proj_dict |-> loop.value,
                            best_irreps |-> s.value.best_irreps,
                            summary |-> s.value.verdict]]

\* get_fixed_sc_proj_dict(qcis, sc_index): qcis.verbosity is read before qcis is
\* compared with None
get_fixed_sc_proj_dict(qcis) ==
  IF qcis = <<>> THEN [outcome |-> "AttributeError", value |-> <<>>]
  ELSE IF Dot(qcis[1].nP, qcis[1].nP) \notin {0, 1, 2, 4}
  THEN [outcome |-> "ValueError", value |-> <<>>]
  ELSE WithSummary(qcis[1], IrrepsLoop(qcis[1], FALSE, "LinAlgError"))

\* get_fixed_sc_and_shell_proj_dict(qcis, sc_index, kellm_shell, kellm_shell_index)
get_fixed_sc_and_shell_proj_dict(qcis, kellm_shell) ==
  IF qcis = <<>> THEN [outcome |-> "ValueError", value |-> <<>>]
  ELSE IF kellm_shell = "None" THEN [outcome |-> "ValueError", value |-> <<>>]
  ELSE IF Dot(qcis[1].nP, qcis[1].nP) \notin {0, 1, 2}
  THEN [outcome |-> "ValueError", value |-> <<>>]
  ELSE LET loop == IrrepsLoop(qcis[1], kellm_shell = "misfit", "LinAlgError")
       IN  IF loop.outcome # "return" THEN loop
           ELSE [outcome |-> "return", value |-> [proj_dict |-> loop.value]]

\* get_full_proj_dict(qcis): no test of the momentum, and no return statement; rejected
\* is the error numpy raises on the block_diag of the exception objects
get_full_proj_dict(qcis, rejected) ==
  IF qcis = <<>> THEN [outcome |-> "ValueError", value |-> <<>>]
  ELSE LET r == WithSummary(qcis[1], IrrepsLoop(qcis[1], FALSE, rejected))
       IN  IF r.outcome # "return" THEN r
           ELSE [outcome |-> "return", value |-> "None"]

\* qcis.fvs.nP of the entry points: the momenta of the shell builders and one of
\* squared length 4
EntryMomenta == ShellMomenta \cup {<<0, 0, 2>>}

EntryQcis ==
  {<<>>} \cup
  {<<[nP |-> nP, irrep_set |-> irreps, attached |-> attached, cols |-> cols,
      real |-> re, total_size |-> total_size]>> :
     nP \in EntryMomenta, irreps \in {<<>>, <<"A1PLUS">>, <<"A1PLUS", "EPLUS">>, <<"A1">>},
     attached \in BOOLEAN, cols \in {0, 1}, re \in BOOLEAN, total_size \in {1, 3}}

GetProjNonintThreeSpinningShellHalf ==
  Fresh /\ \E qcis \in ShellQcis :
    LET r == get_proj_nonint_three_spinning_shell_half(qcis)
    IN  /\ op' = "get_proj_nonint_three_spinning_shell"
        /\ arg' = [qcis |-> qcis, spin_half |-> TRUE]
        /\ outcome' = r.outcome
        /\ result' = r.value

GetFixedScProjDict ==
  Fresh /\ \E qcis \in EntryQcis :
    LET r == get_fixed_sc_proj_dict(qcis)
    IN  /\ op' = "get_fixed_sc_proj_dict"
        /\ arg' = [qcis |-> qcis]
        /\ outcome' = r.outcome
        /\ result' = r.value

GetFixedScAndShellProjDict ==
  Fresh /\ \E qcis \in EntryQcis, kellm_shell \in {"None", "fits", "misfit"} :
    LET r == get_fixed_sc_and_shell_proj_dict(qcis, kellm_shell)
    IN  /\ op' = "get_fixed_sc_and_shell_proj_dict"
        /\ arg' = [qcis |-> qcis, kellm_shell |-> kellm_shell]
        /\ outcome' = r.outcome
        /\ result' = r.value

GetFullProjDict ==
  Fresh /\ \E qcis \in EntryQcis, rejected \in {"LinAlgError", "TypeError"} :
    LET r == get_full_proj_dict(qcis, rejected)
    IN  /\ op' = "get_full_proj_dict"
        /\ arg' = [qcis |-> qcis]
        /\ outcome' = r.outcome
        /\ result' = r.value

NextEntry ==
  \/ GetProjNonintThreePionsShell
  \/ GetProjNonintThreeSpinningShell
  \/ GetProjNonintTwoParticlesShell
  \/ GetProjNonintThreeSpinningShellHalf
  \/ GetFixedScProjDict
  \/ GetFixedScAndShellProjDict
  \/ GetFullProjDict

SpecEntry == Init /\ [][NextEntry]_vars

\* the shell-level and dictionary-level entry points
EntryPoints ==
  {"get_proj_nonint_three_pions_shell", "get_proj_nonint_three_spinning_shell",
   "get_proj_nonint_two_particles_shell", "get_fixed_sc_proj_dict",
   "get_fixed_sc_and_shell_proj_dict", "get_full_proj_dict"}

\* the last call is a call of an entry point with a qcis whose momentum is not
\* supported: none of the three momenta, or not zero where spin_half is set
MomentumNotSupported ==
  /\ op \in EntryPoints
  /\ arg.qcis # <<>>
  /\ \/ arg.qcis[1].nP \notin SupportedMomenta
     \/ "spin_half" \in DOMAIN arg /\ arg.qcis[1].nP # <<0, 0, 0>>

\* C19: every entry point given a momentum that is not supported ends in the
\* ValueError "momentum = ... is not yet supported"
C19_UnsupportedMomentumIsValueError ==
  MomentumNotSupported => outcome = "ValueError"

\* the entry points raise the ValueError for every momentum whose squared length is
\* none of 0, 1, 2 where they test it
C19_OtherLengthsAreValueError ==
  ( /\ MomentumNotSupported
    /\ op # "get_full_proj_dict"
    /\ Dot(arg.qcis[1].nP, arg.qcis[1].nP) \notin {0, 1, 2, 4} ) => outcome = "ValueError"

(***************************************************************************)
(* C20: the momentum part of an induced representation                     *)
(***************************************************************************)
\* the configuration lists of the last call, each with the way its entries are
\* compared: identical particles up to a relabelling
ListsOfCall ==
  CASE op = "generate_induced_rep_kellm" ->
         <<[list |-> [i \in 1..Len(arg.nvec_arr) |-> <<arg.nvec_arr[i]>>],
            identical |-> FALSE]>>
    [] op = "generate_induced_rep_nonint_two_particles" ->
         <<[list |-> arg.nvecset_batched, identical |-> arg.particles_are_identical]>>
    [] op = "generate_induced_rep_nonint_three_scalars" ->
         <<[list |-> arg.identical_arr, identical |-> TRUE]>>
         \o (IF arg.definite_iso
             THEN <<[list |-> arg.nonidentical_arr, identical |-> FALSE]>>
             ELSE <<>>)
    [] op = "generate_induced_rep_nonint_three_particles_spin" ->
         <<[list |-> arg.identical_arr, identical |-> TRUE]>>
    [] OTHER -> <<>>

\* the positions of a list at which the image of entry i under g_elem is found
ImagePositions(p, i) == MatchPositions(p.list, RotateEntry(arg.g_elem, p.list[i]), p.identical)

\* no entry of the list is listed twice, and the image of every entry is an entry
ClosedWithoutDuplicates(p) ==
  /\ \A i, j \in 1..Len(p.list) : i # j => j \notin MatchPositions(p.list, p.list[i], p.identical)
  /\ \A i \in 1..Len(p.list) : ImagePositions(p, i) # {}

\* the spins of the last call, if it has any, are integers
SpinsAreIntegers ==
  /\ "first_spin2" \in DOMAIN arg => arg.first_spin2 % 2 = 0 /\ arg.second_spin2 % 2 = 0
  /\ "third_spin2" \in DOMAIN arg => arg.third_spin2 % 2 = 0

\* the rows before the rows of list k
Offset(k) == SumOver([m \in 1..(k - 1) |-> Len(ListsOfCall[m].list)], 1..(k - 1))

\* the case of C20: a call of a builder whose lists are closed and without duplicates
C20_Case ==
  /\ ListsOfCall # <<>>
  /\ \A k \in 1..Len(ListsOfCall) : ClosedWithoutDuplicates(ListsOfCall[k])
  /\ SpinsAreIntegers

\* entry (row, column) of the returned matrix is 1 where the column is the position of
\* the image of the entry of the row, and 0 elsewhere
OneAtImage ==
  \A k \in 1..Len(ListsOfCall) :
    \A i \in 1..Len(ListsOfCall[k].list) :
      \A c \in 1..Len(result) :
        result[Offset(k) + i][c]
          = (IF c - Offset(k) \in ImagePositions(ListsOfCall[k], i) THEN 1 ELSE 0)

\* every row and every column of the returned matrix holds exactly one 1, all other
\* entries are 0
IsPermutationMatrix ==
  /\ \A r \in 1..Len(result) :
       /\ Len(result[r]) = Len(result)
       /\ \A c \in 1..Len(result) : result[r][c] \in {0, 1}
       /\ Cardinality({c \in 1..Len(result) : result[r][c] = 1}) = 1
  /\ \A c \in 1..Len(result) :
       Cardinality({r \in 1..Len(result) : result[r][c] = 1}) = 1

\* C20: for configuration lists without duplicates that are closed under g_elem, every
\* builder returns a permutation matrix as the momentum part (the spins of the model
\* being 0, it is the whole matrix), the 1 of row i in the column of the entry that
\* is g_elem applied to entry i; identical particles are compared up to a relabelling
C20_MomentumPartIsPermutation ==
  C20_Case =>
    /\ outcome = "return"
    /\ Len(result) = Offset(Len(ListsOfCall) + 1)
    /\ IsPermutationMatrix
    /\ OneAtImage

\* a list on which g_elem acts as a permutation that is not its own inverse
C20_Witness ==
  /\ C20_Case
  /\ outcome = "return"
  /\ result # Transpose(result)

(***************************************************************************)
(* C21: the location of a rotated entry up to a relabelling                *)
(***************************************************************************)
\* a list as it is, and with a relabelling of its first entry listed after it
RelabelledLists(L) ==
  {L} \cup {Append(L, r) : r \in Relabellings(L[1]) \ {L[1]}}

\* lists of pairs of identical particles
IdenticalPairLists == UNION {RelabelledLists(Orbit(s, TRUE)) : s \in PairSeeds}

\* lists of triples of identical particles, each with its list of ordered triples
IdenticalTripleLists ==
  UNION {{<<i, Orbit(s, FALSE)>> : i \in RelabelledLists(Orbit(s, TRUE))} :
           s \in TripleSeeds}

LocateTwoParticles ==
  Fresh /\ \E nvecset_batched \in IdenticalPairLists, s1 \in TwiceSpins, s2 \in TwiceSpins,
     g \in Elements :
    LET r == generate_induced_rep_nonint_two_particles(nvecset_batched, s1, s2, g, TRUE)
    IN  /\ op' = "generate_induced_rep_nonint_two_particles"
        /\ arg' = [nvecset_batched |-> nvecset_batched, first_spin2 |-> s1,
                   second_spin2 |-> s2, g_elem |-> g, particles_are_identical |-> TRUE]
        /\ outcome' = r.outcome
        /\ result' = r.value

LocateThreeScalars ==
  Fresh /\ \E space \in IdenticalTripleLists, g \in Elements, definite_iso \in BOOLEAN :
    LET r == generate_induced_rep_nonint_three_scalars(space[1], space[2], g,
                                                       definite_iso)
    IN  /\ op' = "generate_induced_rep_nonint_three_scalars"
        /\ arg' = [identical_arr |-> space[1], nonidentical_arr |-> space[2],
                   g_elem |-> g, definite_iso |-> definite_iso]
        /\ outcome' = r.outcome
        /\ result' = r.value

LocateThreeParticlesSpin ==
  Fresh /\ \E space \in IdenticalTripleLists, g \in Elements, s1 \in TwiceSpins,
     s3 \in TwiceSpins :
    LET r == generate_induced_rep_nonint_three_particles_spin(space[1], space[2], s1, 0,
                                                              s3, g, FALSE)
    IN  /\ op' = "generate_induced_rep_nonint_three_particles_spin"
        /\ arg' = [identical_arr |-> space[1], nonidentical_arr |-> space[2],
                   first_spin2 |-> s1, second_spin2 |-> 0, third_spin2 |-> s3,
                   g_elem |-> g, definite_iso |-> FALSE]
        /\ outcome' = r.outcome
        /\ result' = r.value

NextLocate ==
  \/ LocateTwoParticles
  \/ LocateThreeScalars
  \/ LocateThreeParticlesSpin

SpecLocate == Init /\ [][NextLocate]_vars

\* the list of identical particles of the last call
IdenticalList ==
  IF op = "generate_induced_rep_nonint_two_particles" THEN arg.nvecset_batched
  ELSE arg.identical_arr

\* the last call is a call of an identical-particle builder
IdenticalBuilderCalled ==
  \/ op = "generate_induced_rep_nonint_two_particles" /\ arg.particles_are_identical
  \/ op \in {"generate_induced_rep_nonint_three_scalars",
             "generate_induced_rep_nonint_three_particles_spin"}

\* rotated entry i of the list
Rotated(i) == RotateEntry(arg.g_elem, IdenticalList[i])

\* the positions at which rotated entry i itself is listed
DirectHits(i) == {k \in 1..Len(IdenticalList) : IdenticalList[k] = Rotated(i)}

\* the positions at which a relabelling of rotated entry i, other than the entry itself,
\* is listed
PermutedHits(i) ==
  {k \in 1..Len(IdenticalList) : IdenticalList[k] \in Relabellings(Rotated(i)) \ {Rotated(i)}}

\* the orders of the particles in which rotated entry i is listed at position k
OrdersHitting(i, k) ==
  IF Len(Rotated(i)) = 2
  THEN {o \in {<<1, 2>>, <<2, 1>>} : Reorder(Rotated(i), o) = IdenticalList[k]}
  ELSE {o \in Range(PION_ORDERS) : Reorder(Rotated(i), o) = IdenticalList[k]}

\* every rotated entry is found, itself or relabelled, at one position only
EveryEntryAtOnePosition ==
  \A i \in 1..Len(IdenticalList) : Cardinality(DirectHits(i) \cup PermutedHits(i)) = 1

\* the list of ordered triples, where the call uses it, has every rotated entry once
OrderedTriplesLocated ==
  (op = "generate_induced_rep_nonint_three_scalars" /\ arg.definite_iso) =>
    \A i \in 1..Len(arg.nonidentical_arr) :
      Cardinality(Matches(arg.nonidentical_arr,
                          RotateEntry(arg.g_elem, arg.nonidentical_arr[i]))) = 1

\* C21: in the identical-particle builders a rotated entry counts as found at position
\* k when the entry or one of its relabellings (the swap, the orders of PION_ORDERS) is
\* entry k of the list: when every rotated entry is found at one position only, by
\* however many relabellings, the locating succeeds (the call returns unless a spin or
\* the list of ordered triples is rejected afterwards) and row i of the returned matrix has its 1 at that position;
\* when the entry itself and a relabelling of it are found at different positions the
\* call fails.
C21_LocatedUpToRelabelling ==
  IdenticalBuilderCalled =>
    /\ (EveryEntryAtOnePosition /\ SpinsAreIntegers /\ OrderedTriplesLocated) =>
         /\ outcome = "return"
         /\ \A i \in 1..Len(IdenticalList) :
              \A k \in 1..Len(IdenticalList) :
                result[i][k] = (IF k \in DirectHits(i) \cup PermutedHits(i) THEN 1 ELSE 0)
    /\ (EveryEntryAtOnePosition /\ ~SpinsAreIntegers) =>
         outcome \in {"AssertionError", "ValueError"}
    /\ (\E i \in 1..Len(IdenticalList) :
          \E k \in DirectHits(i), j \in PermutedHits(i) : k # j) =>
         outcome \in {"AssertionError"}

\* a returned matrix for a list with an entry found by several orders at one position
C21_Witness ==
  /\ IdenticalBuilderCalled
  /\ outcome = "return"
  /\ \E i \in 1..Len(IdenticalList) :
       \E k \in 1..Len(IdenticalList) : Cardinality(OrdersHitting(i, k)) > 1

\* a failed call of each kind of builder for a list in which an entry and a relabelling
\* of it are found at different positions
C21_DifferentPositionsReached ==
  /\ IdenticalBuilderCalled
  /\ \E i \in 1..Len(IdenticalList) :
       \E k \in DirectHits(i), j \in PermutedHits(i) : k # j

(***************************************************************************)
(* The warnings of the reporters                                           *)
(*                                                                         *)
(* A reporter prints a warning for a key of row other than 0 whose         *)
(* multiplicity differs from row_zero_value; what it has printed stays     *)
(* printed when the call fails afterwards.  The result of a call is held   *)
(* with the warnings: [value, printed].                                    *)
(***************************************************************************)
\* the entries met in shells 1..s in the order of the loops, each with its shell and
\* the position of its dictionary in the isoset
Tagged(shells, s) ==
  Flatten([t \in 1..s |->
    Flatten([d \in 1..Len(shells[t].dicts) |->
      [k \in 1..Len(shells[t].dicts[d]) |->
         [shell |-> t, iso |-> d, entry |-> shells[t].dicts[d][k]]]])])

\* "if row == 0: row_zero_value = n_embedded / else: if row_zero_value != n_embedded:
\* print(...)"
Mismatched(row, row_zero_value, n_embedded) == row # 0 /\ row_zero_value # n_embedded

\* the warnings printed from entry k of all on, after those of printed
RECURSIVE WarningsLoop(_, _, _, _, _)
WarningsLoop(all, k, row_zero_value, spinning, printed) ==
  IF k > Len(all) THEN printed
  ELSE LET e == all[k].entry
           n_embedded == e.cols \div LetterDim(e.irrep, spinning)
           warning == [shell |-> all[k].shell, iso |-> all[k].iso, irrep |-> e.irrep,
                       row |-> e.row, row_zero_value |-> row_zero_value,
                       n_embedded |-> n_embedded]
       IN  WarningsLoop(all, k + 1, IF e.row = 0 THEN n_embedded ELSE row_zero_value,
                        spinning,
                        IF Mismatched(e.row, row_zero_value, n_embedded)
                        THEN Append(printed, warning) ELSE printed)

\* the shells whose loop body has run: all of them, or those up to the first whose
\* assertion fails
ShellsRun(shells, nstates, two_particles, spinning) ==
  LET fails(s) == ShellsLoop(SubSeq(shells, 1, s), nstates, 1, 0, <<>>, two_particles,
                             spinning).outcome # "return"
  IN  IF \E s \in 1..Len(shells) : fails(s)
      THEN CHOOSE s \in 1..Len(shells) : fails(s) /\ \A t \in 1..(s - 1) : ~fails(t)
      ELSE Len(shells)

\* a reporter with what it prints
Reporter(r, qcis, nstates, two_particles, spinning) ==
  [outcome |-> r.outcome,
   value |-> [value |-> r.value,
              printed |-> IF r.outcome = "ValueError" THEN <<>>
                          ELSE WarningsLoop(Tagged(qcis[1].shells,
                                                   ShellsRun(qcis[1].shells, nstates,
                                                             two_particles, spinning)),
                                            1, 0, spinning, <<>>)]]

(***************************************************************************)
(* Calls of the reporters on dictionaries whose rows may disagree          *)
(***************************************************************************)
\* dictionaries of a shell builder: A1PLUS once or not at all, each row of EPLUS with
\* two or four columns or missing
WarnDicts ==
  {EntryIf("A1PLUS", 0, a) \o EntryIf("EPLUS", 0, e0) \o EntryIf("EPLUS", 1, e1) :
     a \in {0, 1}, e0 \in {0, 2, 4}, e1 \in {0, 2, 4}}

\* a shorter list for the second shell and for the isovalues
ShortDicts ==
  {<<>>, EntryIf("EPLUS", 0, 2) \o EntryIf("EPLUS", 1, 2), EntryIf("EPLUS", 1, 4)}

\* one or two shells with one isovalue, or one shell with four isovalues of which the
\* last two hold nothing
WarnShellLists(definite_iso) ==
  IF definite_iso
  THEN {<<s>> : s \in ShellsOf({<<d0, d1, <<>>, <<>>>> : d0 \in ShortDicts \cup IsoDicts,
                                                         d1 \in ShortDicts})}
  ELSE {<<s>> : s \in ShellsOf({<<d>> : d \in WarnDicts})}
         \cup {<<s, t>> : s \in ShellsOf({<<d>> : d \in IsoDicts}),
                          t \in ShellsOf({<<d>> : d \in ShortDicts})}

WarnThreeParticleQcis(spins) ==
  UNION {{<<[flavors_identical |-> TRUE, definite_iso |-> iso, spins2 |-> s2,
             shells |-> sh]>> : s2 \in spins, sh \in WarnShellLists(iso)} :
           iso \in BOOLEAN}

\* two identical particles, both of spin 0 or the first of spin 1
WarnTwoParticleQcis ==
  {<<[flavors_identical |-> TRUE, spins2 |-> s2, shells |-> sh]>> :
     s2 \in SpinLists(2), sh \in WarnShellLists(FALSE)}

WarnThreePionsDict ==
  Fresh /\ \E qcis \in WarnThreeParticleQcis({<<0, 0, 0>>}) :
    LET r == Reporter(get_proj_nonint_three_pions_dict(qcis), qcis,
                      ThreeParticleStates(qcis[1], 1), FALSE, FALSE)
    IN  /\ op' = "get_proj_nonint_three_pions_dict"
        /\ arg' = [qcis |-> qcis]
        /\ outcome' = r.outcome
        /\ result' = r.value

WarnThreeSpinningDict ==
  Fresh /\ \E qcis \in WarnThreeParticleQcis(SpinLists(3)) :
    LET r == Reporter(get_proj_nonint_three_spinning_dict(qcis), qcis,
                      ThreeParticleStates(qcis[1], total_spin_dimension(qcis[1].spins2)),
                      FALSE, TRUE)
    IN  /\ op' = "get_proj_nonint_three_spinning_dict"
        /\ arg' = [qcis |-> qcis]
        /\ outcome' = r.outcome
        /\ result' = r.value

WarnTwoParticlesDict ==
  Fresh /\ \E qcis \in WarnTwoParticleQcis, isospin_channel \in BOOLEAN :
    LET r == Reporter(get_proj_nonint_two_particles_dict(qcis, isospin_channel), qcis,
                      TwoParticleStates(qcis[1]), TRUE, FALSE)
    IN  /\ op' = "get_proj_nonint_two_particles_dict"
        /\ arg' = [qcis |-> qcis, isospin_channel |-> isospin_channel]
        /\ outcome' = r.outcome
        /\ result' = r.value

NextWarn ==
  \/ WarnThreePionsDict
  \/ WarnThreeSpinningDict
  \/ WarnTwoParticlesDict

SpecWarn == Init /\ [][NextWarn]_vars

(***************************************************************************)
(* C22: what a key adds to the total of its shell                          *)
(***************************************************************************)
\* the sum of the multiplicities of the keys of shell s, each key with its own
OwnMultiplicities(shells, s) ==
  LET all == EntriesThrough(shells, s)
      first == Len(EntriesThrough(shells, s - 1)) + 1
  IN  SumOver([k \in first..Len(all) |-> Embedded(all[k])], first..Len(all))

C22_ThreeParticleReportersAddOwn ==
  (op \in DictReporters \ {"get_proj_nonint_two_particles_dict"} /\ outcome = "return") =>
    \A s \in 1..Len(arg.qcis[1].shells) :
      result.value.shell_totals[s] = OwnMultiplicities(arg.qcis[1].shells, s)

(***************************************************************************)
(* C23: the warning for rows that disagree                                 *)
(***************************************************************************)
\* the keys of row 0 of the irrep of a warning in the dictionary of the warning
RowZeroOf(w) ==
  LET dict == arg.qcis[1].shells[w.shell].dicts[w.iso]
  IN  {k \in 1..Len(dict) : dict[k].irrep = w.irrep /\ dict[k].row = 0}

\* a warning sets a row against row 0 of the same irrep in the same dictionary
ComparesOwnRowZero(w) ==
  LET dict == arg.qcis[1].shells[w.shell].dicts[w.iso]
  IN  \E k \in RowZeroOf(w) : Embedded(dict[k]) = w.row_zero_value

C23_WarningIsNotFatal ==
  (op \in DictReporters /\ outcome # "ValueError") =>
    (outcome = "AssertionError" <=> \E s \in 1..Len(arg.qcis[1].shells) : Mismatch(s))

\* a call that has printed a warning and returned
C23_WarnedAndReturned ==
  /\ op \in DictReporters
  /\ outcome = "return"
  /\ result.printed # <<>>

(***************************************************************************)
(* generate_wigner_d for ell = 0 and ell = 1                               *)
(*                                                                         *)
(* The matrix D of a rotation comes out of the packages quaternionic and   *)
(* spherical, code outside the repository: it is a function of ell and of  *)
(* the rotation handed over.  For ell = 0 it is the 1x1 matrix 1.  For     *)
(* ell = 1 the matrix in the basis of the real harmonics (m = -1, 0, 1     *)
(* standing for y, z, x) is the rotation itself in that basis, or its      *)
(* transpose, depending on the convention of the package: the convention   *)
(* is an input of the call.                                                *)
(***************************************************************************)
Conventions == {"active", "passive"}

Ells == {0, 1}

\* the position of y, z, x among x, y, z
HarmonicAxis == <<2, 3, 1>>

\* U@wig_d@Udagger for the rotation g_rot, as the package and the change of basis
\* give it
RealWignerD(ell, g_rot, convention) ==
  IF ell = 0 THEN <<<<1>>>>
  ELSE LET R == IF convention = "active" THEN g_rot ELSE Transpose(g_rot)
       IN  Stored([m \in 1..3 |->
                     Stored([mp \in 1..3 |-> R[HarmonicAxis[m]][HarmonicAxis[mp]]])])

\* the rotation handed to the package is the element itself
RotationPart_Unchanged(g_elem) == g_elem

\* g_rot: "-1.0*g_elem" for an element of negative determinant, "1.0*g_elem" otherwise
RotationPart(g_elem) == IF Det3(g_elem) < 0 THEN Scale(g_elem, -1) ELSE g_elem

\* generate_wigner_d(ell, g_elem, real_harmonics=True)
generate_wigner_d_ell(ell, g_elem, convention) ==
  LET multiplier == IF Det3(g_elem) < 0 THEN MinusOneTo(ell) ELSE 1
  IN  Scale(RealWignerD(ell, RotationPart(g_elem), convention), multiplier)

GenerateWignerD ==
  Fresh /\ \E ell \in Ells, g \in Elements, convention \in Conventions :
    /\ op' = "generate_wigner_d"
    /\ arg' = [ell |-> ell, g_elem |-> g, convention |-> convention]
    /\ outcome' = "return"
    /\ result' = generate_wigner_d_ell(ell, g, convention)

NextWigner == GenerateWignerD

SpecWigner == Init /\ [][NextWigner]_vars

(***************************************************************************)
(* C24: the parity factor of generate_wigner_d                             *)
(***************************************************************************)
\* C24: for an element g of determinant -1, generate_wigner_d(ell, g) is (-1)^ell times
\* generate_wigner_d(ell, -g); for an element of determinant +1 no factor is applied:
\* the matrix is the one of the rotation g itself; for ell = 0 the matrix is the 1x1
\* matrix 1 for every element of OhP.
C24_ParityFactor ==
  op = "generate_wigner_d" =>
    /\ Det3(arg.g_elem) < 0 =>
         result = Scale(generate_wigner_d_ell(arg.ell, Scale(arg.g_elem, -1),
                                              arg.convention),
                        MinusOneTo(arg.ell))
    /\ Det3(arg.g_elem) > 0 => result = RealWignerD(arg.ell, arg.g_elem, arg.convention)
    /\ arg.ell = 0 => result = <<<<1>>>>
    /\ arg.ell = 0 => result = generate_wigner_d(0, arg.g_elem)

\* an improper element and an odd ell: the factor -1 is applied and changes the matrix
C24_Witness ==
  /\ op = "generate_wigner_d"
  /\ Det3(arg.g_elem) < 0
  /\ arg.ell = 1
  /\ result # generate_wigner_d_ell(arg.ell, Scale(arg.g_elem, -1), arg.convention)

(***************************************************************************)
(* The filing of the cleaned projectors                                    *)
(*                                                                         *)
(* Every builder cleans the projector of each pair (irrep, row) with       *)
(* _clean_projector and files the cleaned basis under the pair when        *)
(* len(finalproj) != 0.  The eigenvalues and eigenvectors of the projector *)
(* of each pair are inputs, as in _clean_projector above.                  *)
(***************************************************************************)
\* len(finalproj) for the array _clean_projector returns, given by its columns:
\* np.array([]).T has length 0, and an array with a column has as many rows as the
\* column has entries
len_finalproj(columns) == IF columns = <<>> THEN 0 ELSE Len(columns[1])

\* every pair is filed, with or without a column
FiledPositions_Every(cleaned) == 1..Len(cleaned)

\* the positions of the pairs whose cleaned basis passes len(finalproj) != 0
FiledPositions(cleaned) == {i \in 1..Len(cleaned) : len_finalproj(cleaned[i]) # 0}

\* non_proj_dict / proj_dict after the loops over the pairs: the cleaned basis of each
\* pair that is filed, under its pair
FileProjectors(pairs, cleaned) ==
  {[key |-> pairs[i], value |-> cleaned[i]] : i \in FiledPositions(cleaned)}

\* the builders that file this way
FilingBuilders ==
  {"get_proj_nonint_three_pions_shell", "get_proj_nonint_three_spinning_shell",
   "get_proj_nonint_two_particles_shell", "get_fixed_sc_proj_dict",
   "get_fixed_sc_and_shell_proj_dict"}

\* the pairs (irrep, row) of one call
FilingPairs == {<<<<"A1PLUS", 0>>, <<"EPLUS", 0>>>>, <<<<"T1MINUS", 0>>, <<"T1MINUS", 1>>>>}

\* eigenvalues of the projectors: 0, 1, and a remainder below EPSILON8 in both parts
FilingEigenvalues == {Exactly(0, 0), Exactly(5, 0), <<<<0, 1>>, <<0, -1>>>>}

\* the eigenvectors of a projector of size n, one per row
FilingEigvecsT(n) ==
  IF n = 1 THEN <<<<Exactly(5, 0)>>>>
  ELSE <<<<Exactly(5, 0), Exactly(0, 0)>>, <<Exactly(0, 0), Exactly(5, 0)>>>>

\* what eig and qr give for one projector of size n
FilingInputs(n) ==
  UNION {{[eigvals |-> eigvals, eigvecsT |-> FilingEigvecsT(n), Q |-> QT] :
            QT \in QChoices(eigvecsT_chop(eigvals, FilingEigvecsT(n)), n)} :
         eigvals \in [1..n -> FilingEigenvalues]}

\* the cleaned basis of each projector of a call
CleanedOf(projectors) ==
  [i \in 1..Len(projectors) |->
     clean_projector(projectors[i].eigvals, projectors[i].eigvecsT, projectors[i].Q).value]

FileCleanedProjectors ==
  Fresh /\ \E builder \in FilingBuilders, pairs \in FilingPairs, n \in ProjectorSizes :
    \E projectors \in [1..Len(pairs) -> FilingInputs(n)] :
      /\ op' = builder
      /\ arg' = [pairs |-> pairs, projectors |-> projectors]
      /\ outcome' = "return"
      /\ result' = FileProjectors(pairs, CleanedOf(projectors))

NextFile == FileCleanedProjectors

SpecFile == Init /\ [][NextFile]_vars

\* the last call cleaned and filed the projectors of its pairs
FiledCall == op \in FilingBuilders /\ "projectors" \in DOMAIN arg

\* the eigenvalues of the projector at position i that do not chop to zero
KeptEigenvalues(i) ==
  NonzeroPositions([j \in 1..Len(arg.projectors[i].eigvals) |->
                      ChopEps8(arg.projectors[i].eigvals[j])])

\* the number of columns of the cleaned basis at position i
ColumnsOf(i) == Len(arg.projectors[i].Q)

\* the pair at position i is a key of the dictionary returned
IsKey(i) == \E e \in result : e.key = arg.pairs[i]

CalledWithoutQcis == op \in EntryPoints /\ arg.qcis = <<>>

\* C26: every public method that takes a qcis ends, for qcis = None, in the
\* ValueError "qcis cannot be None", raised before any attribute of qcis is read
C26_NoneIsValueError ==
  CalledWithoutQcis => outcome = "ValueError"

\* the entry points other than get_fixed_sc_proj_dict raise the ValueError, and
\* get_fixed_sc_proj_dict ends in the AttributeError of qcis.verbosity
C26_NoneIsValueErrorButOne ==
  CalledWithoutQcis =>
    outcome = (IF op = "get_fixed_sc_proj_dict" THEN "AttributeError" ELSE "ValueError")

\* get_fixed_sc_proj_dict has been called without a qcis
C26_FixedScCalledWithoutQcis ==
  CalledWithoutQcis /\ op = "get_fixed_sc_proj_dict"

(***************************************************************************)
(* The hard-coded little groups as stabilizers                             *)
(***************************************************************************)
\* the elements of OhP that leave nP fixed
StabilizerInOhP(nP) == {g \in Range(OhP) : MatVec(g, nP) = nP}

\* C27: the hard-coded little groups are the stabilizers inside OhP: the table
\* get_little_group returns for (0,0,1) is Dic4 and lists exactly the elements of OhP
\* that fix (0,0,1), the one for (0,1,1) is Dic2 and lists exactly those that fix
\* (0,1,1), and the stabilizer loop gives the same sets for these two vectors
C27_TablesAreStabilizers ==
  (op = "get_little_group" /\ arg.nP \in {<<0, 0, 1>>, <<0, 1, 1>>}) =>
    /\ outcome = "return"
    /\ result = (IF arg.nP = <<0, 0, 1>> THEN Dic4 ELSE Dic2)
    /\ Range(result) = StabilizerInOhP(arg.nP)
    /\ Range(result) = Range(StabilizerLoop(arg.nP))
    /\ Cardinality(Range(result)) = Len(result)

\* the table of (0,1,1) has been returned: the four elements of OhP that fix it
C27_Witness ==
  /\ op = "get_little_group"
  /\ arg.nP = <<0, 1, 1>>
  /\ outcome = "return"
  /\ Cardinality(StabilizerInOhP(arg.nP)) = 4
  /\ Cardinality(StabilizerInOhP(<<0, 0, 1>>)) = 8

(***************************************************************************)
(* The order of the OhP table                                              *)
(***************************************************************************)
\* the last call composed the elements at positions arg.i and arg.j of OhP
ComposedInOhP == op = "compose" /\ arg.group = "OhP"

\* the element at position k of the OhP table, k counted from 1
OhPElement(k) == GroupTable("OhP")[k]

\* C28: the OhP table lists 48 pairwise distinct matrices in parity-paired order: the
\* first 24 have determinant +1, the element 24 places after each of them is -1 times
\* it, the first element is the identity and the 25th the inversion, and the
\* characters of A1MINUS are the determinants in this order
C28_ParityPairedOrder ==
  ComposedInOhP =>
    /\ Len(GroupTable("OhP")) = 48
    /\ arg.i # arg.j => OhPElement(arg.i) # OhPElement(arg.j)
    /\ arg.i <= 24 =>
         /\ Det3(OhPElement(arg.i)) = 1
         /\ OhPElement(arg.i + 24) = Scale(OhPElement(arg.i), -1)
    /\ arg.i > 24 =>
         /\ Det3(OhPElement(arg.i)) = -1
         /\ OhPElement(arg.i - 24) = Scale(OhPElement(arg.i), -1)
    /\ OhPElement(1) = Identity3
    /\ OhPElement(25) = Scale(Identity3, -1)
    /\ chardict("OhP_A1MINUS")[1][arg.i] = Det3(OhPElement(arg.i))
    /\ bTdict("OhP_A1MINUS")[1][arg.i] = <<Det3(OhPElement(arg.i)), 0, 1>>

\* a proper element other than the identity has been composed with the element 24
\* places after it, and the product is the inversion times its square
C28_Witness ==
  /\ ComposedInOhP
  /\ arg.i \in 2..24
  /\ arg.j = arg.i + 24
  /\ result = Scale(MatMul(OhPElement(arg.i), OhPElement(arg.i)), -1)

(***************************************************************************)
(* The rows of an irrep                                                    *)
(***************************************************************************)
\* the builders that weight the induced representations with a row of chardict
CharacterWeighted ==
  {"get_proj_nonint_three_scalars", "get_proj_nonint_three_particles_spin",
   "get_proj_nonint_two_particles"}

\* the key the last call of a projector builder read its weights under
TableKeyOfCall == group_str(arg.nP) \o "_" \o arg.irrep

\* what the builder of the last call gives for the same arguments and the row irow
ProjectorOfRow(irow) ==
  CASE op = "get_proj_nonint_three_scalars" ->
         get_proj_nonint_three_scalars(arg.nP, arg.irrep, irow, arg.identical_arr,
                                       arg.nonidentical_arr, arg.definite_iso)
    [] op = "get_proj_nonint_three_particles_spin" ->
         get_proj_nonint_three_particles_spin(arg.nP, arg.irrep, irow, arg.identical_arr,
                                              arg.nonidentical_arr, arg.first_spin2,
                                              arg.second_spin2, arg.third_spin2,
                                              arg.definite_iso)
    [] op = "get_proj_nonint_two_particles" ->
         get_proj_nonint_two_particles(arg.nP, arg.irrep, irow, arg.nvecset_batched,
                                       arg.first_spin2, arg.second_spin2,
                                       arg.particles_are_identical)

\* the last call read the weights of an irrep of its little group, at one of its rows
RowOfAnIrrepRead ==
  /\ op \in CharacterWeighted
  /\ TableKeyOfCall \in BTKeys
  /\ arg.irow < Len(bTdict(TableKeyOfCall))

\* C29: under every key of bTdict chardict has as many rows as bTdict, that number is
\* the dimension the reporters take from the first letter of the label, and the rows
\* of the chardict entry are equal; so the builders give the same projector for every
\* row of an irrep
C29_RowsAlike ==
  /\ \A key \in BTKeys :
       /\ key \in CharKeys
       /\ Len(chardict(key)) = Len(bTdict(key))
       /\ \A r \in 1..Len(chardict(key)) : chardict(key)[r] = chardict(key)[1]
  /\ RowOfAnIrrepRead =>
       /\ Len(bTdict(TableKeyOfCall)) = LetterDim(arg.irrep, FALSE)
       /\ [outcome |-> outcome, value |-> result] = ProjectorOfRow(0)

\* a projector of row 1 of EPLUS that is not zero has been returned
C29_Witness ==
  /\ RowOfAnIrrepRead
  /\ arg.irrep = "EPLUS"
  /\ arg.irow = 1
  /\ outcome = "return"
  /\ \E r \in 1..Len(result) : \E c \in 1..Len(result[r]) : result[r][c] # 0

(***************************************************************************)
(* The sizes added up in get_proj_nonint_three_particles_spin              *)
(***************************************************************************)
\* the last call is a call of get_proj_nonint_three_particles_spin that read its
\* weights and went into the loop over the group
SpinProjectorSummed ==
  /\ op = "get_proj_nonint_three_particles_spin"
  /\ group_str(arg.nP) # "unsupported"
  /\ chardict_row(group_str(arg.nP) \o "_" \o arg.irrep, arg.irow).outcome = "return"

\* what the induced-representation builder gives for each element of the group
InducedRepsOfCall ==
  LET group == GroupTable(group_str(arg.nP))
  IN  Stored([g \in 1..Len(group) |->
        generate_induced_rep_nonint_three_particles_spin(
          arg.identical_arr, arg.nonidentical_arr, arg.first_spin2, arg.second_spin2,
          arg.third_spin2, group[g], arg.definite_iso)])

\* every induced representation of the last call has been built
AllRepsBuilt(reps) == \A g \in 1..Len(reps) : reps[g].outcome = "return"

\* every induced representation has n rows
AllOfSize(reps, n) == \A g \in 1..Len(reps) : Len(reps[g].value) = n

\* dim of proj = np.zeros((dim, dim)) in the last call
AccumulatorDim ==
  (IF arg.definite_iso THEN Len(arg.identical_arr) + Len(arg.nonidentical_arr)
   ELSE Len(arg.identical_arr))
    * (arg.first_spin2 + 1) * (arg.second_spin2 + 1) * (arg.third_spin2 + 1)

\* C30: in get_proj_nonint_three_particles_spin the accumulator and every induced
\* representation added to it have the same dimension for all inputs, definite_iso
\* with a non-empty nonidentical_arr included: the projector returned is square of the
\* size of the induced representation, and no summand is broadcast or mismatched
C30_SummandsFitAccumulator ==
  SpinProjectorSummed =>
    LET reps == InducedRepsOfCall
    IN  AllRepsBuilt(reps) =>
          /\ AllOfSize(reps, AccumulatorDim)
          /\ outcome = "return"
          /\ Len(result) = Len(reps[1].value)
          /\ \A r \in 1..Len(result) : Len(result[r]) = Len(result)

\* without definite_iso the sizes agree, and with it the sizes differ by the entries
\* of nonidentical_arr: the sum is refused with a ValueError, or, for an induced
\* representation of one row, spread over the whole accumulator
C30_SizesWithAndWithoutIso ==
  SpinProjectorSummed =>
    LET reps == InducedRepsOfCall
    IN  AllRepsBuilt(reps) =>
          IF ~arg.definite_iso \/ arg.nonidentical_arr = <<>>
          THEN /\ AllOfSize(reps, AccumulatorDim)
               /\ outcome = "return"
               /\ Len(result) = AccumulatorDim
          ELSE /\ Len(reps[1].value) < AccumulatorDim
               /\ IF Len(reps[1].value) = 1
                  THEN outcome = "return" /\ Len(result) = AccumulatorDim
                  ELSE outcome = "ValueError"

\* a one-row induced representation has been spread over a larger accumulator
C30_BroadcastReached ==
  /\ SpinProjectorSummed
  /\ arg.definite_iso
  /\ Len(arg.identical_arr) = 1
  /\ outcome = "return"
  /\ Len(result) = 2
  /\ \A r \in 1..2 : \A c \in 1..2 : result[r][c] # 0

\* a sum of mismatched sizes has been refused
C30_MismatchReached ==
  /\ SpinProjectorSummed
  /\ arg.definite_iso
  /\ AllRepsBuilt(InducedRepsOfCall)
  /\ outcome = "ValueError"

====
